---- MODULE Spec2Model ----
(***************************************************************************)
(* Authorization core of the drilling backend: users with an account       *)
(* status and an invitation token, roles with a permission assignment      *)
(* table, the JWT gate in front of the routes, login, account activation   *)
(* and the full-replace permission assignment on the shared connection.    *)
(*                                                                         *)
(* The repository holds two generations of the user schema (column         *)
(* "status" and column "accountStatus"); the model has one status field    *)
(* with the four values of the later generation.                           *)
(***************************************************************************)
EXTENDS Integers, Sequences, FiniteSets, Bags, TLC

VARIABLES users, roles, rolePermissions, conn, now, nextToken, nextUserId,
          inv, act, consumed, sessions, req, tx, roleCalls, mail, log,
          authCall, emailCalls, permissionTable, rolePermissionRows, daoResult

vars == <<users, roles, rolePermissions, conn, now, nextToken, nextUserId,
          inv, act, consumed, sessions, req, tx, roleCalls, mail, log,
          authCall,
                 emailCalls, permissionTable,
                 rolePermissionRows, daoResult>>

----------------------------------------------------------------------------
(* Bounds of the model *)

MaxUsers == 2
MaxTokens == 2
MaxTime == 8
MaxRoles == 3

(* Program constants *)

\* invitationExpires: new Date(Date.now() + 7 * 24 * 60 * 60 * 1000), in days
InviteTTL == 7
\* if (newPassword.length < 8)
MinPasswordLength == 8
\* resetExpires: new Date(Date.now() + 3600000), in hours
ResetTTL == 1
\* SQL NULL of the token columns, the timestamp columns and roleId
NoToken == 0
NoTime == -1
NoRole == 0
NoUser == 0

UserIds == 1..MaxUsers
Tokens == 1..MaxTokens
\* The two concurrent callers of activate
ActProcs == {1, 2}

Emails == {"admin@x.com", "a@x.com"}
UnknownEmail == "nobody@x.com"
AdminPassword == "passworD12345#"
NewPasswords == {"short", "NewPass123!"}

Statuses == {"pending", "active", "inactive", "suspended"}

(* The permission catalog (table permissions: id -> name) *)
PermIds == 1..3
PermName == <<"user.update", "user.invite", "user.manage_roles">>

(* The seeded roles (table roles: id -> name) and their assignments *)
SeedRoles == <<"super_admin", "admin">>
SeedRoleIds == 1..Len(SeedRoles)
\* The ids of the table roles: the seeded ones and those POST /roles creates
RoleIds == 1..MaxRoles
NoRoleRow == [exists |-> FALSE, name |-> ""]
SeedRolePermissions == <<{1, 2, 3}, {1, 2}>>

----------------------------------------------------------------------------
(* bcrypt and the generators of EmailService *)

\* bcrypt.hash(password, 12): a value that is not the password
Hash(password) == <<"bcrypt", password>>

\* bcrypt.compare(password, hash)
Compare(password, hash) == hash = Hash(password)

\* EmailService.generateSecurePassword(): 14 characters, fresh per call
TemporaryPassword(n) == "Tmp#Password0" \o ToString(n)

----------------------------------------------------------------------------
(* The users table *)

NoUserRow == [exists |-> FALSE, email |-> "", passwordHash |-> Hash(""),
              status |-> "inactive", roleId |-> NoRole,
              invitationToken |-> NoToken, invitationExpires |-> NoTime,
              resetPasswordToken |-> NoToken,
              resetPasswordExpires |-> NoTime,
              activatedAt |-> NoTime, lastLogin |-> NoTime]

SeedAdmin == [exists |-> TRUE, email |-> "admin@x.com",
              passwordHash |-> Hash(AdminPassword),
              status |-> "active", roleId |-> 1,
              invitationToken |-> NoToken, invitationExpires |-> NoTime,
              resetPasswordToken |-> NoToken,
              resetPasswordExpires |-> NoTime,
              activatedAt |-> NoTime, lastLogin |-> NoTime]

\* The connection with no transaction open
ConnIdle == [inTx |-> FALSE, aborted |-> FALSE,
             rolePermissions |-> [r \in RoleIds |-> {}],
             touched |-> {}, rows |-> [u \in UserIds |-> NoUserRow]]

\* The tables as the shared connection sees them are the variables users and
\* rolePermissions.  Every other session (the connections of the invitation
\* and user routes, the pool of the JWT strategy) reads what is committed:
\* the state at BEGIN for what the open transaction has written since.
Committed ==
  [u \in UserIds |->
     IF conn.inTx /\ u \in conn.touched THEN conn.rows[u] ELSE users[u]]

CommittedRolePermissions ==
  IF conn.inTx THEN conn.rolePermissions ELSE rolePermissions

\* The open transaction holds the lock of every row it has written: an
\* UPDATE or DELETE of that row by another session waits for its end
RowLocked(u) == conn.inTx /\ u \in conn.touched

\* UserDao.getUserByEmail: the id of the row with this email, or NoUser
GetUserByEmail(table, email) ==
  IF \E u \in UserIds : table[u].exists /\ table[u].email = email
  THEN CHOOSE u \in UserIds : table[u].exists /\ table[u].email = email
  ELSE NoUser

\* UserDao.getUserByInvitationToken: WHERE "invitationToken" = $1, rows[0] || null
GetUserByInvitationToken(table, token) ==
  IF \E u \in UserIds : table[u].exists /\ table[u].invitationToken = token
  THEN CHOOSE u \in UserIds : table[u].exists /\ table[u].invitationToken = token
  ELSE NoUser

\* UserDao.updateUser: UPDATE users SET <the given columns> WHERE id = $n
UpdateUser(table, id, updates) ==
  IF id \in UserIds /\ table[id].exists
  THEN [table EXCEPT ![id] =
          [f \in DOMAIN table[id] |->
             IF f \in DOMAIN updates THEN updates[f] ELSE table[id][f]]]
  ELSE table

----------------------------------------------------------------------------
(* HTTP replies *)

Reply(code, error) == [code |-> code, error |-> error]
NoReply == Reply(0, "")
OK200 == Reply(200, "")

Required400 == Reply(400, "Token and new password are required")
TooShort400 == Reply(400, "Password must be at least 8 characters long")
InvalidToken400 == Reply(400, "Invalid or expired invitation token")
ExpiredToken400 == Reply(400, "Invitation token has expired")

----------------------------------------------------------------------------
(* POST /api/invitations/invite and POST /api/invitations/resend: the      *)
(* handler bodies, run by one administrator at a time.                     *)

InvIdle == [pc |-> "idle", user |-> NoUser, n |-> 0]

\* invite, up to and including userDao.createUser
InviteCreate(email, roleId) ==
  /\ inv.pc = "idle"
  /\ GetUserByEmail(Committed, email) = NoUser
  /\ IF roleId = NoRole THEN TRUE ELSE roles[roleId].exists
  /\ nextUserId <= MaxUsers
  /\ nextToken <= MaxTokens
  /\ users' = [users EXCEPT ![nextUserId] =
                 [exists |-> TRUE, email |-> email,
                  passwordHash |-> Hash(TemporaryPassword(nextToken)),
                  status |-> "inactive", roleId |-> roleId,
                  invitationToken |-> NoToken, invitationExpires |-> NoTime,
                  resetPasswordToken |-> NoToken,
                  resetPasswordExpires |-> NoTime,
                  activatedAt |-> NoTime, lastLogin |-> NoTime]]
  /\ inv' = [pc |-> "created", user |-> nextUserId, n |-> nextToken]
  /\ nextUserId' = nextUserId + 1
  /\ nextToken' = nextToken + 1
  /\ UNCHANGED <<roles, rolePermissions, conn, now, act, consumed, sessions,
                 req, tx, roleCalls, mail, log, authCall,
                 emailCalls, permissionTable,
                 rolePermissionRows, daoResult>>

\* invite, the userDao.updateUser that stores the token and its expiry
InviteSetToken ==
  /\ inv.pc = "created"
  /\ ~RowLocked(inv.user)
  /\ users' = UpdateUser(users, inv.user,
                 [invitationToken |-> inv.n,
                  invitationExpires |-> now + InviteTTL])
  /\ inv' = InvIdle
  /\ UNCHANGED <<roles, rolePermissions, conn, now, nextToken, nextUserId,
                 act, consumed, sessions, req, tx,
                 roleCalls, mail, log, authCall,
                 emailCalls, permissionTable,
                 rolePermissionRows, daoResult>>

\* resend, userDao.getUserById and the checks on its result
ResendRead(userId) ==
  /\ inv.pc = "idle"
  /\ Committed[userId].exists
  /\ Committed[userId].status = "inactive"
  /\ nextToken <= MaxTokens
  /\ inv' = [pc |-> "resending", user |-> userId, n |-> nextToken]
  /\ nextToken' = nextToken + 1
  /\ UNCHANGED <<users, roles, rolePermissions, conn, now, nextUserId, act,
                 consumed, sessions, req, tx, roleCalls, mail, log, authCall,
                 emailCalls, permissionTable,
                 rolePermissionRows, daoResult>>

\* resend, the userDao.updateUser with the new credentials and token
ResendWrite ==
  /\ inv.pc = "resending"
  /\ ~RowLocked(inv.user)
  /\ users' = UpdateUser(users, inv.user,
                 [passwordHash |-> Hash(TemporaryPassword(inv.n)),
                  invitationToken |-> inv.n,
                  invitationExpires |-> now + InviteTTL])
  /\ inv' = InvIdle
  /\ UNCHANGED <<roles, rolePermissions, conn, now, nextToken, nextUserId,
                 act, consumed, sessions, req, tx,
                 roleCalls, mail, log, authCall,
                 emailCalls, permissionTable,
                 rolePermissionRows, daoResult>>

----------------------------------------------------------------------------
(* PUT /users/:id, the handler body for a body that carries accountStatus  *)
(* or roleId                                                               *)

AdminUpdateUser(userId, updateData) ==
  /\ Committed[userId].exists
  /\ ~RowLocked(userId)
  /\ "roleId" \in DOMAIN updateData
       => IF updateData.roleId = NoRole THEN TRUE
          ELSE roles[updateData.roleId].exists
  /\ users' = UpdateUser(users, userId, updateData)
  /\ UNCHANGED <<roles, rolePermissions, conn, now, nextToken, nextUserId,
                 inv, act, consumed, sessions, req, tx,
                 roleCalls, mail, log, authCall,
                 emailCalls, permissionTable,
                 rolePermissionRows, daoResult>>

----------------------------------------------------------------------------
(* POST /api/invitations/activate (public): the select by token, then the  *)
(* update by id, with other requests running in between.                   *)

\* A call: its inputs, the row the select returned (id and status), whether
\* the token had been consumed by a finished activation when the call arrived
ActIdle == [pc |-> "idle", token |-> NoToken, newPassword |-> "",
            user |-> NoUser, status |-> "", late |-> FALSE, reply |-> NoReply]

\* A check that refuses the token from the instant of its expiry on
ActivateChecksExpiredAtDeadline(token, newPassword) ==
  LET user == GetUserByInvitationToken(Committed, token) IN
  IF token = NoToken \/ newPassword = "" THEN Required400
  ELSE IF Len(newPassword) < MinPasswordLength THEN TooShort400
  ELSE IF user = NoUser THEN InvalidToken400
  ELSE IF Committed[user].invitationExpires # NoTime
          /\ now >= Committed[user].invitationExpires THEN ExpiredToken400
  ELSE NoReply

\* The checks of the handler before its update: the reply, or NoReply to go on
ActivateChecks(token, newPassword) ==
  LET user == GetUserByInvitationToken(Committed, token) IN
  IF token = NoToken \/ newPassword = "" THEN Required400
  ELSE IF Len(newPassword) < MinPasswordLength THEN TooShort400
  ELSE IF user = NoUser THEN InvalidToken400
  ELSE IF Committed[user].invitationExpires # NoTime
          /\ now > Committed[user].invitationExpires THEN ExpiredToken400
  ELSE NoReply

\* A handler that consumes the invitation and leaves the status as it is
ActivateUpdatesKeepStatus(newPassword) ==
  [passwordHash |-> Hash(newPassword),
   invitationToken |-> NoToken, invitationExpires |-> NoTime]

\* A handler that activates the account without consuming its invitation
ActivateUpdatesKeepToken(newPassword) ==
  [passwordHash |-> Hash(newPassword), status |-> "active"]

\* The columns the handler writes
ActivateUpdates(newPassword) ==
  [passwordHash |-> Hash(newPassword), status |-> "active",
   invitationToken |-> NoToken, invitationExpires |-> NoTime]

ActivateFind(p, token, newPassword) ==
  /\ act[p].pc # "found"
  /\ LET reply == ActivateChecks(token, newPassword)
         user == GetUserByInvitationToken(Committed, token) IN
     act' = [act EXCEPT ![p] =
               [pc |-> IF reply = NoReply THEN "found" ELSE "done",
                token |-> token, newPassword |-> newPassword,
                user |-> IF reply = NoReply THEN user ELSE NoUser,
                status |-> IF reply = NoReply THEN Committed[user].status
                                              ELSE "",
                late |-> token \in consumed,
                reply |-> reply]]
  /\ UNCHANGED <<users, roles, rolePermissions, conn, now, nextToken,
                 nextUserId, inv, consumed, sessions, req, tx,
                 roleCalls, mail, log, authCall,
                 emailCalls, permissionTable,
                 rolePermissionRows, daoResult>>

ActivateUpdate(p) ==
  /\ act[p].pc = "found"
  /\ ~RowLocked(act[p].user)
  /\ users' = UpdateUser(users, act[p].user, ActivateUpdates(act[p].newPassword))
  /\ act' = [act EXCEPT ![p].pc = "done", ![p].reply = OK200]
  /\ consumed' = consumed \cup {act[p].token}
  /\ UNCHANGED <<roles, rolePermissions, conn, now, nextToken, nextUserId,
                 inv, sessions, req, tx, roleCalls, mail, log, authCall,
                 emailCalls, permissionTable,
                 rolePermissionRows, daoResult>>

----------------------------------------------------------------------------
(* DELETE /users/:id, the handler body *)

\* r.name of the LEFT JOIN roles, "" for NULL
RoleName(roleId) ==
  IF roleId \in RoleIds /\ roles[roleId].exists THEN roles[roleId].name ELSE ""

DeleteUser(userId) ==
  /\ Committed[userId].exists
  /\ ~RowLocked(userId)
  /\ users' = IF RoleName(Committed[userId].roleId) = "Super Admin"
              THEN users
              ELSE [users EXCEPT ![userId] = NoUserRow]
  /\ UNCHANGED <<roles, rolePermissions, conn, now, nextToken, nextUserId,
                 inv, act, consumed, sessions, req, tx,
                 roleCalls, mail, log, authCall,
                 emailCalls, permissionTable,
                 rolePermissionRows, daoResult>>

----------------------------------------------------------------------------
(* Statements on the shared connection (one pg.Client for the auth,        *)
(* profile and role routes)                                                *)

\* A statement sent while the transaction of the connection is aborted fails
SessionAborted == conn.inTx /\ conn.aborted

\* The connection after a write of the row of user u
TouchRow(u) ==
  IF conn.inTx /\ u \notin conn.touched
  THEN [conn EXCEPT !.touched = @ \cup {u}, !.rows[u] = users[u]]
  ELSE conn

----------------------------------------------------------------------------
(* The last request the server has answered: the user of its token, the    *)
(* route, and the reply (NoReply when the gate let it through to the       *)
(* handler)                                                                *)

NoRequest == [userId |-> NoUser, route |-> "", reply |-> NoReply]

----------------------------------------------------------------------------
(* POST /login *)

MissingCredentials400 == Reply(400, "Email and password are required")
InvalidCredentials401 == Reply(401, "Invalid credentials")
AccountInactive403 == Reply(403, "Account is inactive")
LoginSuccessful200 == Reply(200, "Login successful")
InternalError500 == Reply(500, "Internal server error")

LoginPasswords == {AdminPassword, TemporaryPassword(1), "WrongPass00"}

\* A handler that checks the account status before the password
LoginReplyStatusFirst(email, password) ==
  LET user == GetUserByEmail(users, email) IN
  IF email = "" \/ password = "" THEN MissingCredentials400
  ELSE IF SessionAborted THEN InternalError500
  ELSE IF user = NoUser THEN InvalidCredentials401
  ELSE IF users[user].status # "active" THEN AccountInactive403
  ELSE IF ~Compare(password, users[user].passwordHash)
       THEN InvalidCredentials401
  ELSE LoginSuccessful200

\* The reply of the handler
LoginReply(email, password) ==
  LET user == GetUserByEmail(users, email) IN
  IF email = "" \/ password = "" THEN MissingCredentials400
  ELSE IF SessionAborted THEN InternalError500
  ELSE IF user = NoUser THEN InvalidCredentials401
  ELSE IF ~Compare(password, users[user].passwordHash)
       THEN InvalidCredentials401
  ELSE IF users[user].status # "active" THEN AccountInactive403
  ELSE LoginSuccessful200

\* The expiresIn option of jwt.sign
JwtExpiresIn == "24h"

\* A token without the role claim
SignTokenNoRole(user) ==
  [userId |-> user, email |-> users[user].email, role |-> "",
   expiresIn |-> JwtExpiresIn]

\* jwt.sign({userId, email, role: user.roleName}, secret, {expiresIn})
SignToken(user) ==
  [userId |-> user, email |-> users[user].email,
   role |-> RoleName(users[user].roleId), expiresIn |-> JwtExpiresIn]

Login(email, password) ==
  LET reply == LoginReply(email, password)
      user == GetUserByEmail(users, email) IN
  /\ req' = [userId |-> NoUser, route |-> "POST /login", reply |-> reply]
  /\ IF reply = LoginSuccessful200
     THEN /\ users' = UpdateUser(users, user, [lastLogin |-> now])
          /\ conn' = TouchRow(user)
          /\ sessions' = sessions \cup {SignToken(user)}
     ELSE UNCHANGED <<users, conn, sessions>>
  /\ UNCHANGED <<roles, rolePermissions, now, nextToken, nextUserId, inv,
                 act, consumed, tx, roleCalls, mail, log, authCall,
                 emailCalls, permissionTable,
                 rolePermissionRows, daoResult>>

----------------------------------------------------------------------------
(* The gate in front of the routes: the JWT strategy, then the preHandler  *)
(* functions of the route in their order                                   *)

Unauthorized401 == Reply(401, "Unauthorized Access")
AuthenticationRequired401 == Reply(401, "Authentication required")
ActivationRequired403 ==
  Reply(403, "Account inactive. Please change your password to activate your account.")
Insufficient403 == Reply(403, "Insufficient permissions")

\* role: undefined, and done(null, false)
NoRoleProfile == [defined |-> FALSE, id |-> NoRole, name |-> "",
                  permissions |-> {}]
NoProfile == [defined |-> FALSE, id |-> NoUser, email |-> "",
              accountStatus |-> "", role |-> NoRoleProfile]

\* A request without a token of this server
NoJwt == [userId |-> NoUser, email |-> "", role |-> ""]

\* A verify callback that trusts the claims of the token
JwtVerifyClaims(payload) ==
  [defined |-> TRUE, id |-> payload.userId, email |-> payload.email,
   accountStatus |-> "active",
   role |-> IF \E r \in RoleIds : roles[r].exists /\ roles[r].name = payload.role
            THEN LET r == CHOOSE r \in RoleIds :
                            roles[r].exists /\ roles[r].name = payload.role IN
                 [defined |-> TRUE, id |-> r, name |-> payload.role,
                  permissions |->
                    {PermName[i] : i \in CommittedRolePermissions[r]}]
            ELSE NoRoleProfile]

\* The verify callback of the JwtStrategy: the user of payload.userId joined
\* with its role and the permission names of the role, read through the pool
JwtVerify(payload) ==
  LET u == payload.userId IN
  IF u \notin UserIds \/ ~Committed[u].exists THEN NoProfile
  ELSE [defined |-> TRUE, id |-> u, email |-> Committed[u].email,
        accountStatus |-> Committed[u].status,
        role |-> IF RoleName(Committed[u].roleId) # ""
                 THEN [defined |-> TRUE, id |-> Committed[u].roleId,
                       name |-> RoleName(Committed[u].roleId),
                       permissions |->
                         {PermName[i] :
                            i \in CommittedRolePermissions[Committed[u].roleId]}]
                 ELSE NoRoleProfile]

\* A check that lets a principal without a role through
HasPermissionRoleOptional(user, permission) ==
  ~user.role.defined \/ permission \in user.role.permissions

\* PermissionService.hasPermission
HasPermission(user, permission) ==
  IF ~user.role.defined THEN FALSE
  ELSE permission \in user.role.permissions

\* The state of a request in the preHandler chain
Request(userProfile, reply) == [userProfile |-> userProfile, reply |-> reply]

\* An authenticate that attaches the principal whatever its status
AuthenticateAnyStatus(jwt) ==
  LET user == IF jwt \in sessions THEN JwtVerify(jwt) ELSE NoProfile IN
  IF ~user.defined THEN Request(NoProfile, Unauthorized401)
  ELSE Request(user, NoReply)

\* authenticate
Authenticate(jwt) ==
  LET user == IF jwt \in sessions THEN JwtVerify(jwt) ELSE NoProfile IN
  IF ~user.defined THEN Request(NoProfile, Unauthorized401)
  ELSE IF user.accountStatus # "active"
       THEN Request(NoProfile, AccountInactive403)
  ELSE Request(user, NoReply)

\* requireActiveAccount
RequireActiveAccount(request) ==
  IF ~request.userProfile.defined
  THEN Request(request.userProfile, AuthenticationRequired401)
  ELSE IF request.userProfile.accountStatus # "active"
       THEN Request(request.userProfile, ActivationRequired403)
  ELSE request

\* requirePermission(permission)
RequirePermission(permission, request) ==
  IF ~request.userProfile.defined
  THEN Request(request.userProfile, Unauthorized401)
  ELSE IF ~HasPermission(request.userProfile, permission)
       THEN Request(request.userProfile, Insufficient403)
  ELSE request

\* A call of authenticate: the promise it returned is pending while pc is
\* "verifying" or "replied", and settled at "resolved" and "rejected"
AuthIdle == [pc |-> "idle", jwt |-> NoJwt, err |-> FALSE, reply |-> NoReply,
             userProfile |-> NoProfile]

\* authenticate is called: new Promise(...) around passport.authenticate;
\* err is whether the strategy will end in done(error)
AuthCall(jwt, err) ==
  /\ authCall.pc \in {"idle", "resolved", "rejected"}
  /\ authCall' = [AuthIdle EXCEPT !.pc = "verifying", !.jwt = jwt,
                                  !.err = err]
  /\ UNCHANGED <<users, roles, rolePermissions, conn, now, nextToken,
                 nextUserId, inv, act, consumed, sessions, req, tx, roleCalls,
                 mail, log, emailCalls, permissionTable,
                 rolePermissionRows, daoResult>>

\* The callback (err, user) of passport.authenticate: reject(err); or a 401
\* or 403 reply and a return without resolve or reject; or
\* request.userProfile = user and resolve(user)
AuthCallback ==
  LET request == Authenticate(authCall.jwt) IN
  /\ authCall.pc = "verifying"
  /\ authCall' =
       IF authCall.err THEN [authCall EXCEPT !.pc = "rejected"]
       ELSE IF request.reply # NoReply
            THEN [authCall EXCEPT !.pc = "replied", !.reply = request.reply]
       ELSE [authCall EXCEPT !.pc = "resolved",
                             !.userProfile = request.userProfile]
  /\ UNCHANGED <<users, roles, rolePermissions, conn, now, nextToken,
                 nextUserId, inv, act, consumed, sessions, req, tx, roleCalls,
                 mail, log, emailCalls, permissionTable,
                 rolePermissionRows, daoResult>>

\* The permission lists handed to the list checks
PermissionLists ==
  {<<>>} \cup {<<a>> : a \in {PermName[i] : i \in PermIds}}
    \cup {<<a, b>> : a, b \in {PermName[i] : i \in PermIds}}

\* A check that accepts the empty list
HasAnyPermissionOrNone(user, permissions) ==
  permissions = <<>>
    \/ \E i \in DOMAIN permissions : HasPermission(user, permissions[i])

\* PermissionService.hasAnyPermission: permissions.some(hasPermission)
HasAnyPermission(user, permissions) ==
  \E i \in DOMAIN permissions : HasPermission(user, permissions[i])

\* PermissionService.hasAllPermissions: permissions.every(hasPermission)
HasAllPermissions(user, permissions) ==
  \A i \in DOMAIN permissions : HasPermission(user, permissions[i])

\* requireAnyPermission(permissions)
RequireAnyPermission(permissions, request) ==
  IF ~request.userProfile.defined
  THEN Request(request.userProfile, Unauthorized401)
  ELSE IF ~HasAnyPermission(request.userProfile, permissions)
       THEN Request(request.userProfile, Insufficient403)
  ELSE request

\* A request at a route behind authenticate and requireAnyPermission
CheckAnyPermission(jwt, permissions) ==
  LET request == Authenticate(jwt) IN
  /\ req' = [userId |-> jwt.userId, route |-> "requireAnyPermission",
              reply |-> IF request.reply # NoReply THEN request.reply
                        ELSE RequireAnyPermission(permissions, request).reply]
  /\ UNCHANGED <<users, roles, rolePermissions, conn, now, nextToken,
                 nextUserId, inv, act, consumed, sessions, tx, roleCalls,
                 mail, log, authCall,
                 emailCalls, permissionTable,
                 rolePermissionRows, daoResult>>

\* The routes: their preHandler lists and the permission they require
Route(name, preHandler, permission) ==
  [name |-> name, preHandler |-> preHandler, permission |-> permission]

Routes ==
  { Route("PUT /profile/password", <<"authenticate">>, ""),
    Route("GET /profile", <<"authenticate", "requireActiveAccount">>, ""),
    Route("POST /invitations/invite",
          <<"authenticate", "requirePermission">>, "user.invite"),
    Route("PUT /users/:id",
          <<"authenticate", "requireActiveAccount", "requirePermission">>,
          "user.update"),
    Route("PUT /roles/:id",
          <<"authenticate", "requireActiveAccount", "requirePermission">>,
          "user.manage_roles") }

\* allowedInactiveRoutes of checkAccountActive, among the routes above
AllowedInactiveRoutes == {"PUT /profile/password"}

\* The preHandler functions from position i on; a function that has replied
\* ends the chain
RECURSIVE RunPreHandlers(_, _, _, _)
RunPreHandlers(route, i, jwt, request) ==
  IF i > Len(route.preHandler) \/ request.reply # NoReply THEN request
  ELSE RunPreHandlers(route, i + 1, jwt,
         CASE route.preHandler[i] = "authenticate" -> Authenticate(jwt)
           [] route.preHandler[i] = "requireActiveAccount" ->
                RequireActiveAccount(request)
           [] route.preHandler[i] = "requirePermission" ->
                RequirePermission(route.permission, request))

\* The reply of the gate, NoReply when the request reaches the handler
GateReply(jwt, route) ==
  RunPreHandlers(route, 1, jwt, Request(NoProfile, NoReply)).reply

\* A request arrives at a guarded route
Gate(jwt, route) ==
  /\ req' = [userId |-> jwt.userId, route |-> route.name,
              reply |-> GateReply(jwt, route)]
  /\ UNCHANGED <<users, roles, rolePermissions, conn, now, nextToken,
                 nextUserId, inv, act, consumed, sessions, tx,
                 roleCalls, mail, log, authCall,
                 emailCalls, permissionTable,
                 rolePermissionRows, daoResult>>

----------------------------------------------------------------------------
(* GET /api/invitations/verify/:token (public) *)

InvalidInvitation400 == Reply(400, "Invalid invitation token")
AlreadyActive400 == Reply(400, "Account is already active")
TokenValid200 == Reply(200, "valid")

VerifyReply(token) ==
  LET user == GetUserByInvitationToken(Committed, token) IN
  IF user = NoUser THEN InvalidInvitation400
  ELSE IF Committed[user].invitationExpires # NoTime
          /\ now > Committed[user].invitationExpires THEN ExpiredToken400
  ELSE IF Committed[user].status = "active" THEN AlreadyActive400
  ELSE TokenValid200

VerifyToken(token) ==
  /\ req' = [userId |-> NoUser, route |-> "GET /invitations/verify/:token",
              reply |-> VerifyReply(token)]
  /\ UNCHANGED <<users, roles, rolePermissions, conn, now, nextToken,
                 nextUserId, inv, act, consumed, sessions, tx,
                 roleCalls, mail, log, authCall,
                 emailCalls, permissionTable,
                 rolePermissionRows, daoResult>>

----------------------------------------------------------------------------
(* PUT /profile/password: the gate of the route, then the handler body *)

PasswordsRequired400 ==
  Reply(400, "Current password and new password are required")
NewTooShort400 ==
  Reply(400, "New password must be at least 8 characters long")
UserNotFound404 == Reply(404, "User not found")
CurrentIncorrect400 == Reply(400, "Current password is incorrect")
PasswordChanged200 == Reply(200, "Password changed successfully")

PasswordRoute == Route("PUT /profile/password", <<"authenticate">>, "")

\* A handler that does not verify the current password
ChangePasswordReplyAnyCurrent(requestUser, currentPassword, newPassword) ==
  IF requestUser = NoUser THEN InternalError500
  ELSE IF currentPassword = "" \/ newPassword = "" THEN PasswordsRequired400
  ELSE IF Len(newPassword) < MinPasswordLength THEN NewTooShort400
  ELSE IF SessionAborted THEN InternalError500
  ELSE IF ~users[requestUser].exists THEN UserNotFound404
  ELSE PasswordChanged200

\* The reply of the handler.  requestUser is request.user.userId, NoUser when
\* nothing has set request.user: reading userId of it throws inside the try
ChangePasswordReply(requestUser, currentPassword, newPassword) ==
  IF requestUser = NoUser THEN InternalError500
  ELSE IF currentPassword = "" \/ newPassword = "" THEN PasswordsRequired400
  ELSE IF Len(newPassword) < MinPasswordLength THEN NewTooShort400
  ELSE IF SessionAborted THEN InternalError500
  ELSE IF ~users[requestUser].exists THEN UserNotFound404
  ELSE IF ~Compare(currentPassword, users[requestUser].passwordHash)
       THEN CurrentIncorrect400
  ELSE PasswordChanged200

ChangeOwnPassword(jwt, requestUser, currentPassword, newPassword) ==
  LET gate == GateReply(jwt, PasswordRoute)
      reply == IF gate # NoReply THEN gate
               ELSE ChangePasswordReply(requestUser, currentPassword,
                                        newPassword) IN
  /\ req' = [userId |-> jwt.userId, route |-> PasswordRoute.name,
              reply |-> reply]
  /\ IF reply = PasswordChanged200
     THEN /\ users' = UpdateUser(users, requestUser,
                         [passwordHash |-> Hash(newPassword)])
          /\ conn' = TouchRow(requestUser)
     ELSE UNCHANGED <<users, conn>>
  /\ UNCHANGED <<roles, rolePermissions, now, nextToken, nextUserId, inv,
                 act, consumed, sessions, tx, roleCalls, mail, log, authCall,
                 emailCalls, permissionTable,
                 rolePermissionRows, daoResult>>

----------------------------------------------------------------------------
(* PUT /users/:id behind its preHandler list, and PUT /profile             *)

ValidId400 == Reply(400, "Valid user ID is required")
EmailInUse409 == Reply(409, "Email already in use by another user")
FailedUpdate500 == Reply(500, "Failed to update user")
UserUpdated200 == Reply(200, "User updated successfully")
AtLeastOne400 == Reply(400, "At least one field must be provided for update")
ProfileUpdated200 == Reply(200, "Profile updated successfully")

\* A route that asks for no permission
UsersRouteNoPermission ==
  Route("PUT /users/:id", <<"authenticate", "requireActiveAccount">>, "")

UsersRoute ==
  Route("PUT /users/:id",
        <<"authenticate", "requireActiveAccount", "requirePermission">>,
        "user.update")

ProfileRoute ==
  Route("PUT /profile", <<"authenticate", "requireActiveAccount">>, "")

\* UserDao.emailExists
EmailExists(table, email, excludeUserId) ==
  \E u \in UserIds \ {excludeUserId} : table[u].exists /\ table[u].email = email

\* The bodies of PUT /users/:id
UserBodies ==
  [status : {"active", "suspended"}] \cup [email : {"a@x.com"}]
    \cup [status : {"inactive"}, email : {"b@x.com"}]

\* The reply of PUT /users/:id; id = NoUser is the empty id.  The routes of
\* /users read and write through a connection of their own
PutUserReply(jwt, id, updateData) ==
  LET gate == GateReply(jwt, UsersRoute) IN
  IF gate # NoReply THEN gate
  ELSE IF id = NoUser THEN ValidId400
  ELSE IF ~Committed[id].exists THEN UserNotFound404
  ELSE IF /\ "email" \in DOMAIN updateData
          /\ updateData.email # Committed[id].email
          /\ EmailExists(Committed, updateData.email, id)
       THEN EmailInUse409
  ELSE UserUpdated200

PutUser(jwt, id, updateData) ==
  LET reply == PutUserReply(jwt, id, updateData) IN
  /\ reply = UserUpdated200 => ~RowLocked(id)
  /\ req' = [userId |-> jwt.userId, route |-> UsersRoute.name,
              reply |-> reply]
  /\ users' = IF reply = UserUpdated200
              THEN UpdateUser(users, id, updateData)
              ELSE users
  /\ UNCHANGED <<roles, rolePermissions, conn, now, nextToken, nextUserId,
                 inv, act, consumed, sessions, tx, roleCalls, mail, log,
                 authCall,
                 emailCalls, permissionTable,
                 rolePermissionRows, daoResult>>

\* The bodies of PUT /profile, with and without a field the handler does
\* not read
ProfileBodies ==
  [email : {"a@x.com"}] \cup [status : {"active"}]
    \cup [email : {"b@x.com"}, status : {"suspended"}]
    \cup [phoneNumber : {"555"}, status : {"active"}]

\* const { email, phoneNumber } = request.body, and updateData of them
ProfileData(body) ==
  [f \in DOMAIN body \cap {"email", "phoneNumber"} |-> body[f]]

\* The reply of the handler.  requestUser is request.user.userId, NoUser when
\* nothing has set request.user
EditProfileReply(requestUser, body) ==
  IF requestUser = NoUser THEN InternalError500
  ELSE IF DOMAIN ProfileData(body) = {} THEN AtLeastOne400
  ELSE IF SessionAborted THEN InternalError500
  ELSE IF "email" \in DOMAIN body /\ EmailExists(users, body.email, requestUser)
       THEN EmailInUse409
  ELSE IF ~users[requestUser].exists THEN UserNotFound404
  ELSE ProfileUpdated200

EditProfile(jwt, requestUser, body) ==
  LET gate == GateReply(jwt, ProfileRoute)
      reply == IF gate # NoReply THEN gate
               ELSE EditProfileReply(requestUser, body) IN
  /\ req' = [userId |-> jwt.userId, route |-> ProfileRoute.name,
              reply |-> reply]
  /\ IF reply = ProfileUpdated200
     THEN /\ users' = UpdateUser(users, requestUser, ProfileData(body))
          /\ conn' = TouchRow(requestUser)
     ELSE UNCHANGED <<users, conn>>
  /\ UNCHANGED <<roles, rolePermissions, now, nextToken, nextUserId, inv,
                 act, consumed, sessions, tx, roleCalls, mail, log, authCall,
                 emailCalls, permissionTable,
                 rolePermissionRows, daoResult>>

----------------------------------------------------------------------------
(* EmailService.sendEmail, and POST /invite and POST /resend as whole      *)
(* handlers with their mail, one request at a time                         *)

\* config.NODE_ENV === 'development', or a transporter whose sendMail
\* resolves or rejects
MailModes == {"development", "delivered", "failed"}

NoResetToken == [userId |-> NoUser, type |-> ""]

\* What a mail or a console line carries of the secrets of the server
Message(to, temporaryPassword, invitationToken, resetToken) ==
  [to |-> to, temporaryPassword |-> temporaryPassword,
   invitationToken |-> invitationToken, resetToken |-> resetToken]

\* The text of sendUserInvitationEmail: the temporary password and the
\* activation link with the token
InvitationText(email, n) ==
  Message(email, TemporaryPassword(n), n, NoResetToken)

\* sendEmail: in development the text goes to console.log and nothing is
\* sent; otherwise the message is handed to transporter.sendMail
SendEmailLog(text, mode) == IF mode = "development" THEN {text} ELSE {}

SendEmailMail(text, mode) ==
  IF mode = "development" THEN {}
  ELSE {[text |-> text, sent |-> mode = "delivered"]}

\* The value sendEmail resolves to; a rejected sendMail is caught
SendEmail(mode) == mode # "failed"

InviteFields400 == Reply(400, "Email, first name, and last name are required")
UserExists409 == Reply(409, "User with this email already exists")
InvitationSent201 == Reply(201, "User invitation sent successfully")
InviteFailed500 == Reply(500, "Failed to send user invitation")
UserIdRequired400 == Reply(400, "User ID is required")
UserAlreadyActive400 == Reply(400, "User account is already active")
InvitationResent200 == Reply(200, "Invitation resent successfully")

InviteRoute ==
  Route("POST /invitations/invite", <<"authenticate", "requirePermission">>,
        "user.invite")

ResendRoute ==
  Route("POST /invitations/resend", <<"authenticate", "requirePermission">>,
        "user.invite")

\* The reply of POST /invite; an INSERT with the id of no role fails on the
\* foreign key and is caught
InviteUserReply(jwt, email, roleId) ==
  LET gate == GateReply(jwt, InviteRoute) IN
  IF gate # NoReply THEN gate
  ELSE IF email = "" THEN InviteFields400
  ELSE IF GetUserByEmail(Committed, email) # NoUser THEN UserExists409
  ELSE IF roleId # NoRole /\ RoleName(roleId) = "" THEN InviteFailed500
  ELSE InvitationSent201

\* A handler that deletes the user again when the mail was not sent
UsersAfterInviteUndone(email, roleId, sent) ==
  IF ~sent THEN users
  ELSE [users EXCEPT ![nextUserId] =
          [NoUserRow EXCEPT !.exists = TRUE, !.email = email,
             !.passwordHash = Hash(TemporaryPassword(nextToken)),
             !.roleId = roleId, !.invitationToken = nextToken,
             !.invitationExpires = now + InviteTTL]]

\* The table after createUser and updateUser of the handler; sent is the
\* result of sendUserInvitationEmail, which the handler does not read
UsersAfterInvite(email, roleId, sent) ==
  [users EXCEPT ![nextUserId] =
     [exists |-> TRUE, email |-> email,
      passwordHash |-> Hash(TemporaryPassword(nextToken)),
      status |-> "inactive", roleId |-> roleId,
      invitationToken |-> nextToken,
      invitationExpires |-> now + InviteTTL,
      resetPasswordToken |-> NoToken, resetPasswordExpires |-> NoTime,
      activatedAt |-> NoTime, lastLogin |-> NoTime]]

InviteUser(jwt, email, roleId, mode) ==
  LET reply == InviteUserReply(jwt, email, roleId)
      text == InvitationText(email, nextToken) IN
  /\ reply = InvitationSent201
       => (nextUserId <= MaxUsers /\ nextToken <= MaxTokens)
  /\ req' = [userId |-> jwt.userId, route |-> InviteRoute.name,
              reply |-> reply]
  /\ IF reply = InvitationSent201
     THEN /\ users' = UsersAfterInvite(email, roleId, SendEmail(mode))
          /\ nextUserId' = nextUserId + 1
          /\ nextToken' = nextToken + 1
          /\ mail' = mail \cup SendEmailMail(text, mode)
          /\ log' = log \cup SendEmailLog(text, mode)
     ELSE UNCHANGED <<users, nextUserId, nextToken, mail, log>>
  /\ UNCHANGED <<roles, rolePermissions, conn, now, inv, act, consumed,
                 sessions, tx, roleCalls, authCall,
                 emailCalls, permissionTable,
                 rolePermissionRows, daoResult>>

\* The reply of POST /resend; userId = NoUser is the missing field
ResendReply(jwt, userId) ==
  LET gate == GateReply(jwt, ResendRoute) IN
  IF gate # NoReply THEN gate
  ELSE IF userId = NoUser THEN UserIdRequired400
  ELSE IF ~Committed[userId].exists THEN UserNotFound404
  ELSE IF Committed[userId].status # "inactive" THEN UserAlreadyActive400
  ELSE InvitationResent200

ResendInvitation(jwt, userId, mode) ==
  LET reply == ResendReply(jwt, userId)
      text == InvitationText(Committed[userId].email, nextToken) IN
  /\ reply = InvitationResent200
       => (nextToken <= MaxTokens /\ ~RowLocked(userId))
  /\ req' = [userId |-> jwt.userId, route |-> ResendRoute.name,
              reply |-> reply]
  /\ IF reply = InvitationResent200
     THEN /\ users' = UpdateUser(users, userId,
                         [passwordHash |-> Hash(TemporaryPassword(nextToken)),
                          invitationToken |-> nextToken,
                          invitationExpires |-> now + InviteTTL])
          /\ nextToken' = nextToken + 1
          /\ mail' = mail \cup SendEmailMail(text, mode)
          /\ log' = log \cup SendEmailLog(text, mode)
     ELSE UNCHANGED <<users, nextToken, mail, log>>
  /\ UNCHANGED <<roles, rolePermissions, conn, now, nextUserId, inv, act,
                 consumed, sessions, tx, roleCalls, authCall,
                 emailCalls, permissionTable,
                 rolePermissionRows, daoResult>>

----------------------------------------------------------------------------
(* POST /password-reset (public), in the two generations of the auth       *)
(* routes, and UserDao.getUserByPasswordResetToken                         *)

EmailRequired400 == Reply(400, "Email is required")
ResetSent200 == Reply(200, "If the email exists, a reset link has been sent")

\* jwt.sign({userId: user.id, type: 'password_reset'}, ..., {expiresIn: '1h'})
ResetJwt(user) == [userId |-> user, type |-> "password_reset"]

\* The reply of the handler that returns the token it has signed
PasswordResetReply(email) ==
  LET user == GetUserByEmail(users, email) IN
  IF email = "" THEN EmailRequired400
  ELSE IF SessionAborted THEN InternalError500
  ELSE IF user = NoUser THEN ResetSent200
  ELSE [code |-> 200, error |-> ResetSent200.error,
        resetToken |-> ResetJwt(user)]

\* console.log('Password reset token generated for user:', user.email,
\* 'Token:', resetToken)
PasswordResetLog(email) ==
  LET user == GetUserByEmail(users, email) IN
  IF email = "" \/ SessionAborted \/ user = NoUser THEN {}
  ELSE {Message(email, "", NoToken, ResetJwt(user))}

PasswordReset(email) ==
  /\ req' = [userId |-> NoUser, route |-> "POST /password-reset",
              reply |-> PasswordResetReply(email)]
  /\ log' = log \cup PasswordResetLog(email)
  /\ UNCHANGED <<users, roles, rolePermissions, conn, now, nextToken,
                 nextUserId, inv, act, consumed, sessions, tx,
                 roleCalls, mail, authCall,
                 emailCalls, permissionTable,
                 rolePermissionRows, daoResult>>

\* The reply of the handler that stores the token on the user
PasswordResetStoredReply(email) ==
  IF email = "" THEN EmailRequired400
  ELSE IF SessionAborted THEN InternalError500
  ELSE ResetSent200

\* The handler that stores the token on the user, with resetPasswordExpires
\* one hour after the request
PasswordResetStored(email) ==
  LET user == GetUserByEmail(users, email)
      reply == PasswordResetStoredReply(email) IN
  /\ nextToken <= MaxTokens
  /\ req' = [userId |-> NoUser, route |-> "POST /password-reset",
              reply |-> reply]
  /\ IF reply = ResetSent200 /\ user # NoUser
     THEN /\ users' = UpdateUser(users, user,
                         [resetPasswordToken |-> nextToken,
                          resetPasswordExpires |-> now + ResetTTL])
          /\ conn' = TouchRow(user)
          /\ nextToken' = nextToken + 1
     ELSE UNCHANGED <<users, conn, nextToken>>
  /\ UNCHANGED <<roles, rolePermissions, now, nextUserId, inv, act, consumed,
                 sessions, tx, roleCalls, mail, log, authCall,
                 emailCalls, permissionTable,
                 rolePermissionRows, daoResult>>

\* UserDao.getUserByPasswordResetToken: WHERE "resetPasswordToken" = $1 AND
\* "resetPasswordExpires" > NOW(), rows[0] || null
GetUserByPasswordResetToken(table, token) ==
  IF \E u \in UserIds : /\ table[u].exists
                        /\ table[u].resetPasswordToken = token
                        /\ table[u].resetPasswordExpires > now
  THEN CHOOSE u \in UserIds : /\ table[u].exists
                              /\ table[u].resetPasswordToken = token
                              /\ table[u].resetPasswordExpires > now
  ELSE NoUser

\* UserDao.clearPasswordResetToken on the shared connection
ClearPasswordResetToken(userId) ==
  /\ ~SessionAborted
  /\ users' = UpdateUser(users, userId,
                 [resetPasswordToken |-> NoToken,
                  resetPasswordExpires |-> NoTime])
  /\ conn' = TouchRow(userId)
  /\ req' = [userId |-> userId, route |-> "clearPasswordResetToken",
              reply |-> NoReply]
  /\ UNCHANGED <<roles, rolePermissions, now, nextToken, nextUserId, inv,
                 act, consumed, sessions, tx, roleCalls, mail, log, authCall,
                 emailCalls, permissionTable,
                 rolePermissionRows, daoResult>>

\* A call of getUserByPasswordResetToken on the shared connection
ResetLookup(token) ==
  /\ ~SessionAborted
  /\ req' = [userId |-> GetUserByPasswordResetToken(users, token),
              route |-> "getUserByPasswordResetToken", reply |-> NoReply]
  /\ UNCHANGED <<users, roles, rolePermissions, conn, now, nextToken,
                 nextUserId, inv, act, consumed, sessions, tx,
                 roleCalls, mail, log, authCall,
                 emailCalls, permissionTable,
                 rolePermissionRows, daoResult>>

----------------------------------------------------------------------------
(* RoleDao.setRolePermissions inside DatabaseConnection.transaction: BEGIN, *)
(* the DELETE, one INSERT per permission id, COMMIT, and ROLLBACK in the   *)
(* catch.  pg.Client runs the statements it is given one at a time, in the *)
(* order they arrive, so the statements of two requests interleave.        *)

\* The two concurrent callers of setRolePermissions
TxProcs == {1, 2}

\* The permissionIds arguments
PermLists == {<<3>>, <<2, 1>>, <<1, 1>>}

\* A call: its arguments, the position in permissionIds, the committed
\* assignments of the role when the call began, and whether no other call
\* or statement on the same role has run during the call
TxIdle == [pc |-> "idle", roleId |-> NoRole, permissionIds |-> <<>>, i |-> 1,
           before |-> {}, alone |-> TRUE]

\* ROLLBACK, and COMMIT of an aborted transaction: what the transaction
\* wrote is undone
RolledBackUsers ==
  [u \in UserIds |-> IF u \in conn.touched THEN conn.rows[u] ELSE users[u]]

\* The calls other than t, with those on roleId marked as not alone
Disturb(t, roleId) ==
  [q \in TxProcs |->
     IF q # t /\ tx[q].pc # "idle" /\ tx[q].roleId = roleId
     THEN [tx[q] EXCEPT !.alone = FALSE]
     ELSE tx[q]]

\* await this.client.query('BEGIN'), outside the try block
TxBegin(t, roleId, permissionIds) ==
  /\ tx[t].pc = "idle"
  /\ LET call == [pc |-> "delete", roleId |-> roleId,
                  permissionIds |-> permissionIds, i |-> 1,
                  before |-> CommittedRolePermissions[roleId],
                  alone |-> \A q \in TxProcs \ {t} :
                              tx[q].pc = "idle" \/ tx[q].roleId # roleId] IN
     IF SessionAborted
     THEN /\ tx' = [tx EXCEPT ![t] = TxIdle]
          /\ UNCHANGED conn
     ELSE /\ tx' = [Disturb(t, roleId) EXCEPT ![t] = call]
          /\ conn' = IF conn.inTx THEN conn
                     ELSE [ConnIdle EXCEPT !.inTx = TRUE,
                                           !.rolePermissions = rolePermissions]
  /\ UNCHANGED <<users, roles, rolePermissions, now, nextToken, nextUserId,
                 inv, act, consumed, sessions, req,
                 roleCalls, mail, log, authCall,
                 emailCalls, permissionTable,
                 rolePermissionRows, daoResult>>

\* DELETE FROM role_permissions WHERE "roleId" = $1
TxDelete(t) ==
  /\ tx[t].pc = "delete"
  /\ IF SessionAborted
     THEN /\ tx' = [tx EXCEPT ![t].pc = "rollback"]
          /\ UNCHANGED rolePermissions
     ELSE /\ rolePermissions' = [rolePermissions EXCEPT ![tx[t].roleId] = {}]
          /\ tx' = [Disturb(t, tx[t].roleId) EXCEPT
                      ![t].pc = IF tx[t].permissionIds = <<>>
                                THEN "commit" ELSE "insert"]
  /\ UNCHANGED <<users, roles, conn, now, nextToken, nextUserId, inv, act,
                 consumed, sessions, req, roleCalls, mail, log, authCall,
                 emailCalls, permissionTable,
                 rolePermissionRows, daoResult>>

\* INSERT INTO role_permissions ("roleId", "permissionId") VALUES ($1, $2):
\* fails on UNIQUE("roleId", "permissionId") and on the foreign key; a
\* failure inside a transaction aborts the transaction
TxInsert(t) ==
  /\ tx[t].pc = "insert"
  /\ LET r == tx[t].roleId
         p == tx[t].permissionIds[tx[t].i] IN
     IF SessionAborted \/ p \notin PermIds \/ p \in rolePermissions[r]
     THEN /\ tx' = [tx EXCEPT ![t].pc = "rollback"]
          /\ conn' = IF conn.inTx THEN [conn EXCEPT !.aborted = TRUE] ELSE conn
          /\ UNCHANGED rolePermissions
     ELSE /\ rolePermissions' = [rolePermissions EXCEPT ![r] = @ \cup {p}]
          /\ tx' = [Disturb(t, r) EXCEPT
                      ![t].i = @ + 1,
                      ![t].pc = IF tx[t].i = Len(tx[t].permissionIds)
                                THEN "commit" ELSE "insert"]
          /\ UNCHANGED conn
  /\ UNCHANGED <<users, roles, now, nextToken, nextUserId, inv, act,
                 consumed, sessions, req, roleCalls, mail, log, authCall,
                 emailCalls, permissionTable,
                 rolePermissionRows, daoResult>>

\* await this.client.query('COMMIT'); return result.  Without an open
\* transaction COMMIT is a warning; COMMIT of an aborted transaction rolls
\* back and raises no error
TxCommit(t) ==
  /\ tx[t].pc = "commit"
  /\ tx' = [tx EXCEPT ![t] = TxIdle]
  /\ conn' = ConnIdle
  /\ IF SessionAborted
     THEN /\ rolePermissions' = conn.rolePermissions
          /\ users' = RolledBackUsers
     ELSE UNCHANGED <<users, rolePermissions>>
  /\ UNCHANGED <<roles, now, nextToken, nextUserId, inv, act, consumed,
                 sessions, req, roleCalls, mail, log, authCall,
                 emailCalls, permissionTable,
                 rolePermissionRows, daoResult>>

\* catch (error) { await this.client.query('ROLLBACK'); throw error }.
\* Without an open transaction ROLLBACK is a warning
TxRollback(t) ==
  /\ tx[t].pc = "rollback"
  /\ tx' = [tx EXCEPT ![t] = TxIdle]
  /\ conn' = ConnIdle
  /\ IF conn.inTx
     THEN /\ rolePermissions' = conn.rolePermissions
          /\ users' = RolledBackUsers
     ELSE UNCHANGED <<users, rolePermissions>>
  /\ UNCHANGED <<roles, now, nextToken, nextUserId, inv, act, consumed,
                 sessions, req, roleCalls, mail, log, authCall,
                 emailCalls, permissionTable,
                 rolePermissionRows, daoResult>>

\* RoleDao.addPermissionToRole: INSERT ... ON CONFLICT DO NOTHING, one
\* statement on the shared connection
AddPermissionToRole(roleId, permissionId) ==
  /\ ~SessionAborted
  /\ rolePermissions' = [rolePermissions EXCEPT ![roleId] = @ \cup {permissionId}]
  /\ tx' = Disturb(0, roleId)
  /\ UNCHANGED <<users, roles, conn, now, nextToken, nextUserId, inv, act,
                 consumed, sessions, req, roleCalls, mail, log, authCall,
                 emailCalls, permissionTable,
                 rolePermissionRows, daoResult>>

\* RoleDao.removePermissionFromRole: DELETE ... WHERE "roleId" = $1 AND
\* "permissionId" = $2, one statement on the shared connection
RemovePermissionFromRole(roleId, permissionId) ==
  /\ ~SessionAborted
  /\ rolePermissions' = [rolePermissions EXCEPT ![roleId] = @ \ {permissionId}]
  /\ tx' = Disturb(0, roleId)
  /\ UNCHANGED <<users, roles, conn, now, nextToken, nextUserId, inv, act,
                 consumed, sessions, req, roleCalls, mail, log, authCall,
                 emailCalls, permissionTable,
                 rolePermissionRows, daoResult>>

\* The ids of the catalog in the order of their names
IdsByName == <<2, 3, 1>>

\* RoleDao.getRoleById(id).permissions on the shared connection:
\* array_agg(p.name ORDER BY p.name) over the assignments of the role
RECURSIVE GetRolePermissions(_, _, _)
GetRolePermissions(table, roleId, i) ==
  IF i > Len(IdsByName) THEN <<>>
  ELSE (IF IdsByName[i] \in table[roleId]
        THEN <<PermName[IdsByName[i]]>> ELSE <<>>)
       \o GetRolePermissions(table, roleId, i + 1)

----------------------------------------------------------------------------
(* The role routes POST /roles, PUT /roles/:id and DELETE /roles/:id: the  *)
(* handler bodies, one request at a time on the shared connection          *)

\* const systemRoles of the DELETE handler
SystemRoles ==
  {"super_admin", "admin", "geologist", "driller", "junior_driller"}

\* The role names of the request bodies
RoleNames == {"editor", "geologist"}

NameRequired400 == Reply(400, "Name and description are required")
RoleNameExists409 == Reply(409, "Role name already exists")
RoleNotFound404 == Reply(404, "Role not found")
SystemRole400 == Reply(400, "Cannot delete system roles")
RoleCreated201 == Reply(201, "Role created successfully")
RoleUpdated200 == Reply(200, "Role updated successfully")
RoleDeleted200 == Reply(200, "Role deleted successfully")

\* RoleDao.getRoleByName: the id of the role of this name, or NoRole
GetRoleByName(name) ==
  IF \E r \in RoleIds : roles[r].exists /\ roles[r].name = name
  THEN CHOOSE r \in RoleIds : roles[r].exists /\ roles[r].name = name
  ELSE NoRole

\* The id the INSERT of createRole gives the new row (uuid_generate_v4()):
\* none of the seeded ids
NewRoleId == CHOOSE r \in RoleIds \ SeedRoleIds : ~roles[r].exists

\* The INSERTs of setRolePermissions: one of them fails on a permission id
\* that is given twice or is not in the catalog
InsertFails(permissionIds) ==
  \/ \E i \in 1..Len(permissionIds) : permissionIds[i] \notin PermIds
  \/ \E i, j \in 1..Len(permissionIds) :
        i # j /\ permissionIds[i] = permissionIds[j]

\* RoleDao.setRolePermissions with no other request on the connection: the
\* assignments after COMMIT, or after ROLLBACK
SetRolePermissions(table, roleId, permissionIds) ==
  IF InsertFails(permissionIds) THEN table
  ELSE [table EXCEPT ![roleId] =
          {permissionIds[i] : i \in 1..Len(permissionIds)}]

\* The reply of POST /roles; permissions are the ids of the permission
\* names of the body that getPermissionByName found, <<>> for a body
\* without permissions
CreateRoleReply(name, permissions) ==
  IF name = "" THEN NameRequired400
  ELSE IF SessionAborted THEN InternalError500
  ELSE IF GetRoleByName(name) # NoRole THEN RoleNameExists409
  ELSE IF InsertFails(permissions) THEN InternalError500
  ELSE RoleCreated201

\* POST /roles: createRole, then setRolePermissions on the new role when
\* the body named permissions
CreateRole(name, permissions) ==
  /\ \E r \in RoleIds \ SeedRoleIds : ~roles[r].exists
  /\ LET reply == CreateRoleReply(name, permissions)
         created == ~SessionAborted /\ reply \notin {NameRequired400,
                                                     RoleNameExists409} IN
     /\ req' = [userId |-> NoUser, route |-> "POST /roles", reply |-> reply]
     /\ roles' = IF created
                 THEN [roles EXCEPT ![NewRoleId] =
                         [exists |-> TRUE, name |-> name]]
                 ELSE roles
     /\ rolePermissions' = IF created /\ Len(permissions) > 0
                           THEN SetRolePermissions(rolePermissions, NewRoleId,
                                                   permissions)
                           ELSE rolePermissions
     /\ tx' = IF created /\ Len(permissions) > 0
              THEN Disturb(0, NewRoleId) ELSE tx
  /\ UNCHANGED <<users, conn, now, nextToken, nextUserId, inv, act,
                 consumed, sessions, roleCalls, mail, log, authCall,
                 emailCalls, permissionTable,
                 rolePermissionRows, daoResult>>

\* The bodies of PUT /roles/:id: a name, a permission list, or both
RoleBodies ==
  [name : RoleNames] \cup [permissions : PermLists]
    \cup [name : RoleNames, permissions : PermLists]

UpdateRoleReply(id, body) ==
  IF SessionAborted THEN InternalError500
  ELSE IF ~roles[id].exists THEN RoleNotFound404
  ELSE IF "name" \in DOMAIN body /\ body.name # roles[id].name
          /\ GetRoleByName(body.name) # NoRole THEN RoleNameExists409
  ELSE IF "permissions" \in DOMAIN body /\ InsertFails(body.permissions)
       THEN InternalError500
  ELSE RoleUpdated200

\* PUT /roles/:id: updateRole when the body has a name, then
\* setRolePermissions when it has permissions
UpdateRole(id, body) ==
  LET reply == UpdateRoleReply(id, body)
      checked == ~SessionAborted /\ reply \notin {RoleNotFound404,
                                                  RoleNameExists409} IN
  /\ req' = [userId |-> NoUser, route |-> "PUT /roles/:id", reply |-> reply]
  /\ roles' = IF checked /\ "name" \in DOMAIN body
              THEN [roles EXCEPT ![id].name = body.name]
              ELSE roles
  /\ rolePermissions' = IF checked /\ "permissions" \in DOMAIN body
                        THEN SetRolePermissions(rolePermissions, id,
                                                body.permissions)
                        ELSE rolePermissions
  /\ tx' = IF checked /\ "permissions" \in DOMAIN body
           THEN Disturb(0, id) ELSE tx
  /\ UNCHANGED <<users, conn, now, nextToken, nextUserId, inv, act,
                 consumed, sessions, roleCalls, mail, log, authCall,
                 emailCalls, permissionTable,
                 rolePermissionRows, daoResult>>

\* A DELETE handler without the list of system roles
DeleteRoleReplyAnyName(id) ==
  IF SessionAborted THEN InternalError500
  ELSE IF ~roles[id].exists THEN RoleNotFound404
  ELSE RoleDeleted200

DeleteRoleReply(id) ==
  IF SessionAborted THEN InternalError500
  ELSE IF ~roles[id].exists THEN RoleNotFound404
  ELSE IF roles[id].name \in SystemRoles THEN SystemRole400
  ELSE RoleDeleted200

\* A users table without the foreign key action
UsersOfRoleNone(id) == {}

\* The users whose "roleId" is id: REFERENCES roles(id) ON DELETE SET NULL
UsersOfRole(id) == {u \in UserIds : users[u].exists /\ users[u].roleId = id}

\* The connection after a write of the rows of the users in S
TouchRows(S) ==
  IF conn.inTx
  THEN [conn EXCEPT !.touched = @ \cup S,
                    !.rows = [u \in UserIds |->
                                IF u \in S \ conn.touched THEN users[u]
                                ELSE conn.rows[u]]]
  ELSE conn

\* DELETE /roles/:id: RoleDao.deleteRole removes the row of the role, its
\* role_permissions rows (ON DELETE CASCADE) and the reference of its users
DeleteRole(id) ==
  LET reply == DeleteRoleReply(id) IN
  /\ req' = [userId |-> NoUser, route |-> "DELETE /roles/:id",
              reply |-> reply]
  /\ IF reply = RoleDeleted200
     THEN /\ roles' = [roles EXCEPT ![id] = NoRoleRow]
          /\ rolePermissions' = [rolePermissions EXCEPT ![id] = {}]
          /\ users' = [u \in UserIds |->
                         IF u \in UsersOfRole(id)
                         THEN [users[u] EXCEPT !.roleId = NoRole]
                         ELSE users[u]]
          /\ conn' = TouchRows(UsersOfRole(id))
          /\ tx' = Disturb(0, id)
     ELSE UNCHANGED <<users, roles, rolePermissions, conn, tx>>
  /\ UNCHANGED <<now, nextToken, nextUserId, inv, act, consumed, sessions,
                 roleCalls, mail, log, authCall,
                 emailCalls, permissionTable,
                 rolePermissionRows, daoResult>>

\* PermissionService.isAdmin and isSuperAdmin, on a principal
IsAdmin(user) ==
  IF ~user.role.defined THEN FALSE
  ELSE user.role.name = "super_admin" \/ user.role.name = "admin"

IsSuperAdmin(user) ==
  IF ~user.role.defined THEN FALSE
  ELSE user.role.name = "super_admin"

----------------------------------------------------------------------------
(* POST /roles and PUT /roles/:id with a name, statement by statement: the *)
(* checks of the handler with its getRoleByName, then the INSERT of        *)
(* createRole or the UPDATE of updateRole, with other requests in between  *)

\* The two concurrent callers of the role routes
RoleProcs == {1, 2}

RoleCallIdle == [pc |-> "idle", route |-> "", id |-> NoRole, name |-> "",
                 reply |-> NoReply]

\* The handler up to its write: the reply of a failed check, or on to the
\* write
RoleNameCheck(p, route, id, name) ==
  /\ roleCalls[p].pc # "checked"
  /\ LET reply == IF route = "POST /roles" THEN CreateRoleReply(name, <<>>)
                  ELSE UpdateRoleReply(id, [name |-> name])
         go == reply \in {RoleCreated201, RoleUpdated200} IN
     roleCalls' = [roleCalls EXCEPT ![p] =
                     [pc |-> IF go THEN "checked" ELSE "done",
                      route |-> route, id |-> id, name |-> name,
                      reply |-> IF go THEN NoReply ELSE reply]]
  /\ UNCHANGED <<users, roles, rolePermissions, conn, now, nextToken,
                 nextUserId, inv, act, consumed, sessions, req, tx, mail,
                 log, authCall,
                 emailCalls, permissionTable,
                 rolePermissionRows, daoResult>>

\* name VARCHAR(50) UNIQUE NOT NULL: the statement fails when another row
\* has the name
NameTaken(id, name) ==
  \E r \in RoleIds \ {id} : roles[r].exists /\ roles[r].name = name

\* The INSERT or UPDATE and the reply.  A failed statement is caught by the
\* handler and answered 500; inside a transaction it aborts the transaction
RoleNameWrite(p) ==
  LET c == roleCalls[p]
      fails == SessionAborted \/ NameTaken(c.id, c.name) IN
  /\ c.pc = "checked"
  /\ c.route = "POST /roles" => \E r \in RoleIds \ SeedRoleIds : ~roles[r].exists
  /\ roleCalls' = [roleCalls EXCEPT
                     ![p].pc = "done",
                     ![p].reply = IF fails THEN InternalError500
                                  ELSE IF c.route = "POST /roles"
                                       THEN RoleCreated201
                                       ELSE RoleUpdated200]
  /\ roles' = IF fails THEN roles
              ELSE IF c.route = "POST /roles"
                   THEN [roles EXCEPT ![NewRoleId] =
                           [exists |-> TRUE, name |-> c.name]]
              ELSE IF roles[c.id].exists
                   THEN [roles EXCEPT ![c.id].name = c.name]
              ELSE roles
  /\ conn' = IF fails /\ conn.inTx THEN [conn EXCEPT !.aborted = TRUE]
             ELSE conn
  /\ UNCHANGED <<users, rolePermissions, now, nextToken, nextUserId, inv,
                 act, consumed, sessions, req, tx, mail, log, authCall,
                 emailCalls, permissionTable,
                 rolePermissionRows, daoResult>>

----------------------------------------------------------------------------
(* The email of a user: POST /register and PUT /users/:id statement by     *)
(* statement, the check of the email and the later INSERT or UPDATE        *)

EmailProcs == {1, 2}

RegisterExists409 == Reply(409, "User already exists")
UserCreated201 == Reply(201, "User created successfully")

EmailCallIdle == [pc |-> "idle", route |-> "", id |-> NoUser, email |-> "",
                  reply |-> NoReply]

\* The handler up to its write: the reply of a failed check, or on to the
\* write.  email = "" is the missing field, id the :id of PUT /users/:id
EmailCheck(p, route, id, email) ==
  /\ emailCalls[p].pc # "checked"
  /\ LET reply ==
           IF route = "POST /register"
           THEN IF email = "" THEN MissingCredentials400
                ELSE IF SessionAborted THEN InternalError500
                ELSE IF GetUserByEmail(users, email) # NoUser
                     THEN RegisterExists409
                ELSE NoReply
           ELSE IF id = NoUser THEN ValidId400
                ELSE IF ~Committed[id].exists THEN UserNotFound404
                ELSE IF /\ email # Committed[id].email
                        /\ EmailExists(Committed, email, id)
                     THEN EmailInUse409
                ELSE NoReply IN
     emailCalls' = [emailCalls EXCEPT ![p] =
                      [pc |-> IF reply = NoReply THEN "checked" ELSE "done",
                       route |-> route, id |-> id, email |-> email,
                       reply |-> reply]]
  /\ UNCHANGED <<users, roles, rolePermissions, conn, now, nextToken,
                 nextUserId, inv, act, consumed, sessions, req, tx, roleCalls,
                 mail, log, authCall, permissionTable, rolePermissionRows,
                 daoResult>>

\* email VARCHAR(255) UNIQUE NOT NULL: the statement fails when another row
\* has the email
EmailTaken(id, email) ==
  \E u \in UserIds \ {id} : users[u].exists /\ users[u].email = email

\* The INSERT of createUser or the UPDATE of updateUser, and the reply.  A
\* failed statement is caught by the handler and answered 500; an UPDATE of
\* no row makes updateUser return null
EmailWrite(p) ==
  LET c == emailCalls[p]
      register == c.route = "POST /register"
      fails == EmailTaken(c.id, c.email) \/ (register /\ SessionAborted) IN
  /\ c.pc = "checked"
  /\ (register /\ ~fails) => nextUserId <= MaxUsers
  /\ ~register => ~RowLocked(c.id)
  /\ emailCalls' = [emailCalls EXCEPT
                      ![p].pc = "done",
                      ![p].reply =
                         IF register
                         THEN IF fails THEN InternalError500
                              ELSE UserCreated201
                         ELSE IF fails \/ ~users[c.id].exists
                              THEN FailedUpdate500
                         ELSE UserUpdated200]
  /\ users' = IF fails THEN users
              ELSE IF register
                   THEN [users EXCEPT ![nextUserId] =
                           [NoUserRow EXCEPT
                              !.exists = TRUE, !.email = c.email,
                              !.passwordHash = Hash("NewPass123!"),
                              !.status = "pending"]]
              ELSE UpdateUser(users, c.id, [email |-> c.email])
  /\ nextUserId' = IF register /\ ~fails THEN nextUserId + 1 ELSE nextUserId
  /\ conn' = IF register /\ fails /\ conn.inTx
             THEN [conn EXCEPT !.aborted = TRUE] ELSE conn
  /\ UNCHANGED <<roles, rolePermissions, now, nextToken, inv, act, consumed,
                 sessions, req, tx, roleCalls, mail, log, authCall,
                 permissionTable, rolePermissionRows, daoResult>>

----------------------------------------------------------------------------
(* The table role_permissions row by row under its constraints, and the    *)
(* statements of the RoleDao and the PermissionDao on it.  A row is a pair *)
(* <<roleId, permissionId>>, the table a bag of rows; permissionTable is   *)
(* the set of the ids in the table permissions                             *)

SeedRows ==
  SetToBag({<<r, p>> : r \in SeedRoleIds, p \in PermIds}
             \cap {pair \in SeedRoleIds \X PermIds :
                     pair[2] \in SeedRolePermissions[pair[1]]})

NoDaoResult == [op |-> "", result |-> ""]

\* A statement without the UNIQUE constraint
UniqueViolationNever(rows, roleId, permissionId) == FALSE

\* UNIQUE("roleId", "permissionId")
UniqueViolation(rows, roleId, permissionId) ==
  CopiesIn(<<roleId, permissionId>>, rows) > 0

\* "roleId" REFERENCES roles(id), "permissionId" REFERENCES permissions(id)
ForeignKeyViolation(roleId, permissionId) ==
  \/ IF roleId \in RoleIds THEN ~roles[roleId].exists ELSE TRUE
  \/ permissionId \notin permissionTable

\* The rows that a DELETE with the condition keep negated leaves
RowsWhere(rows, keep(_)) ==
  [pair \in {x \in BagToSet(rows) : keep(x)} |-> rows[pair]]

\* The nested view of the rows: the permission ids of each role
AssignmentsOf(rows) ==
  [r \in RoleIds |-> {p \in PermIds : CopiesIn(<<r, p>>, rows) > 0}]

\* RoleDao.addPermissionToRole: INSERT ... ON CONFLICT DO NOTHING, and
\* rowCount > 0
InsertRolePermission(roleId, permissionId) ==
  LET conflict == UniqueViolation(rolePermissionRows, roleId, permissionId)
      fk == ~conflict /\ ForeignKeyViolation(roleId, permissionId) IN
  /\ rolePermissionRows' =
       IF conflict \/ fk THEN rolePermissionRows
       ELSE rolePermissionRows (+) SetToBag({<<roleId, permissionId>>})
  /\ rolePermissions' = AssignmentsOf(rolePermissionRows')
  /\ daoResult' = [op |-> "addPermissionToRole",
                   result |-> IF fk THEN "throws"
                              ELSE IF conflict THEN "false" ELSE "true"]
  /\ UNCHANGED <<users, roles, conn, now, nextToken, nextUserId, inv, act,
                 consumed, sessions, req, tx, roleCalls, mail, log, authCall,
                 emailCalls, permissionTable>>

\* RoleDao.removePermissionFromRole
DeleteRolePermission(roleId, permissionId) ==
  LET keep(pair) == pair # <<roleId, permissionId>> IN
  /\ rolePermissionRows' = RowsWhere(rolePermissionRows, keep)
  /\ rolePermissions' = AssignmentsOf(rolePermissionRows')
  /\ daoResult' = [op |-> "removePermissionFromRole",
                   result |-> IF CopiesIn(<<roleId, permissionId>>,
                                          rolePermissionRows) > 0
                              THEN "true" ELSE "false"]
  /\ UNCHANGED <<users, roles, conn, now, nextToken, nextUserId, inv, act,
                 consumed, sessions, req, tx, roleCalls, mail, log, authCall,
                 emailCalls, permissionTable>>

\* The INSERTs of setRolePermissions from position i on: the rows after
\* them, or the failure of one of them
RECURSIVE InsertAll(_, _, _, _)
InsertAll(rows, roleId, permissionIds, i) ==
  IF i > Len(permissionIds) THEN [ok |-> TRUE, rows |-> rows]
  ELSE IF \/ UniqueViolation(rows, roleId, permissionIds[i])
          \/ ForeignKeyViolation(roleId, permissionIds[i])
       THEN [ok |-> FALSE, rows |-> rows]
  ELSE InsertAll(rows (+) SetToBag({<<roleId, permissionIds[i]>>}), roleId,
                 permissionIds, i + 1)

\* RoleDao.setRolePermissions with no other request on the connection:
\* BEGIN, the DELETE of the rows of the role, the INSERTs, then COMMIT, or
\* ROLLBACK and the error thrown on
ReplaceRolePermissions(roleId, permissionIds) ==
  LET keep(pair) == pair[1] # roleId
      done == InsertAll(RowsWhere(rolePermissionRows, keep), roleId,
                        permissionIds, 1) IN
  /\ rolePermissionRows' = IF done.ok THEN done.rows ELSE rolePermissionRows
  /\ rolePermissions' = AssignmentsOf(rolePermissionRows')
  /\ daoResult' = [op |-> "setRolePermissions",
                   result |-> IF done.ok THEN "true" ELSE "throws"]
  /\ UNCHANGED <<users, roles, conn, now, nextToken, nextUserId, inv, act,
                 consumed, sessions, req, tx, roleCalls, mail, log, authCall,
                 emailCalls, permissionTable>>

\* RoleDao.deleteRole: DELETE FROM roles WHERE id = $1, with ON DELETE
\* CASCADE of role_permissions and ON DELETE SET NULL of users
DeleteRoleCascade(id) ==
  LET keep(pair) == pair[1] # id IN
  /\ roles' = [roles EXCEPT ![id] = NoRoleRow]
  /\ rolePermissionRows' = RowsWhere(rolePermissionRows, keep)
  /\ rolePermissions' = AssignmentsOf(rolePermissionRows')
  /\ users' = [u \in UserIds |->
                 IF users[u].exists /\ users[u].roleId = id
                 THEN [users[u] EXCEPT !.roleId = NoRole] ELSE users[u]]
  /\ daoResult' = [op |-> "deleteRole",
                   result |-> IF roles[id].exists THEN "true" ELSE "false"]
  /\ UNCHANGED <<conn, now, nextToken, nextUserId, inv, act, consumed,
                 sessions, req, tx, roleCalls, mail, log, authCall,
                 emailCalls, permissionTable>>

\* PermissionDao.deletePermission: DELETE FROM permissions WHERE id = $1,
\* with ON DELETE CASCADE of role_permissions
DeletePermission(id) ==
  LET keep(pair) == pair[2] # id IN
  /\ permissionTable' = permissionTable \ {id}
  /\ rolePermissionRows' = RowsWhere(rolePermissionRows, keep)
  /\ rolePermissions' = AssignmentsOf(rolePermissionRows')
  /\ daoResult' = [op |-> "deletePermission",
                   result |-> IF id \in permissionTable THEN "true" ELSE "false"]
  /\ UNCHANGED <<users, roles, conn, now, nextToken, nextUserId, inv, act,
                 consumed, sessions, req, tx, roleCalls, mail, log, authCall,
                 emailCalls>>

----------------------------------------------------------------------------
(* The clock *)

Tick(d) ==
  /\ now + d <= MaxTime
  /\ now' = now + d
  /\ UNCHANGED <<users, roles, rolePermissions, conn, nextToken, nextUserId,
                 inv, act, consumed, sessions, req, tx,
                 roleCalls, mail, log, authCall,
                 emailCalls, permissionTable,
                 rolePermissionRows, daoResult>>

----------------------------------------------------------------------------
(* The state after the schema script has seeded the database *)

Init ==
  /\ users = [u \in UserIds |-> IF u = 1 THEN SeedAdmin ELSE NoUserRow]
  /\ roles = [r \in RoleIds |->
                IF r \in SeedRoleIds
                THEN [exists |-> TRUE, name |-> SeedRoles[r]] ELSE NoRoleRow]
  /\ rolePermissions = [r \in RoleIds |->
                IF r \in SeedRoleIds THEN SeedRolePermissions[r] ELSE {}]
  /\ conn = ConnIdle
  /\ now = 0
  /\ nextToken = 1
  /\ nextUserId = 2
  /\ inv = InvIdle
  /\ act = [p \in ActProcs |-> ActIdle]
  /\ consumed = {}
  /\ sessions = {}
  /\ req = NoRequest
  /\ tx = [t \in TxProcs |-> TxIdle]
  /\ roleCalls = [p \in RoleProcs |-> RoleCallIdle]
  /\ mail = {}
  /\ log = {}
  /\ authCall = AuthIdle
  /\ emailCalls = [p \in EmailProcs |-> EmailCallIdle]
  /\ permissionTable = PermIds
  /\ rolePermissionRows = SeedRows
  /\ daoResult = NoDaoResult

(* The invitation life cycle: invite, resend, administrative status change *)
(* and concurrent activate calls                                           *)
NextActivate ==
  \/ \E e \in Emails, r \in SeedRoleIds \cup {NoRole} : InviteCreate(e, r)
  \/ InviteSetToken
  \/ \E u \in UserIds : ResendRead(u)
  \/ ResendWrite
  \/ \E u \in UserIds \ {1}, s \in Statuses :
        AdminUpdateUser(u, [status |-> s])
  \/ \E p \in ActProcs, t \in Tokens \cup {NoToken}, pw \in NewPasswords :
        ActivateFind(p, t, pw)
  \/ \E p \in ActProcs : ActivateUpdate(p)
  \/ \E d \in {InviteTTL, InviteTTL + 1} : Tick(d)

SpecActivate == Init /\ [][NextActivate]_vars

(* Login, the gate, and what changes the live state behind a token: user   *)
(* updates and deletion, and the permission assignment of a role           *)
NextAuth ==
  \/ \E e \in Emails \ {"admin@x.com"}, r \in SeedRoleIds \cup {NoRole} :
        InviteCreate(e, r)
  \/ InviteSetToken
  \/ \E u \in UserIds \ {1}, s \in Statuses :
        AdminUpdateUser(u, [status |-> s])
  \/ \E u \in UserIds \ {1}, r \in SeedRoleIds :
        AdminUpdateUser(u, [roleId |-> r])
  \/ \E u \in UserIds \ {1} : DeleteUser(u)
  \/ \E e \in Emails \cup {UnknownEmail}, pw \in LoginPasswords \cup {""} :
        Login(e, pw)
  \/ \E jwt \in sessions \cup {NoJwt}, route \in Routes : Gate(jwt, route)
  \/ \E r \in SeedRoleIds \ {1}, p \in PermIds : AddPermissionToRole(r, p)
  \/ \E r \in SeedRoleIds \ {1}, p \in PermIds : RemovePermissionFromRole(r, p)

SpecAuth == Init /\ [][NextAuth]_vars

(* Concurrent permission assignments on the shared connection *)
NextRoles ==
  \/ \E t \in TxProcs, r \in SeedRoleIds, ids \in PermLists : TxBegin(t, r, ids)
  \/ \E t \in TxProcs : TxDelete(t)
  \/ \E t \in TxProcs : TxInsert(t)
  \/ \E t \in TxProcs : TxCommit(t)
  \/ \E t \in TxProcs : TxRollback(t)

SpecRoles == Init /\ [][NextRoles]_vars

(* The role routes, and invitations that give users the roles *)
NextRoleRoutes ==
  \/ \E n \in RoleNames \cup {""} : CreateRole(n, <<>>)
  \/ \E r \in RoleIds, body \in RoleBodies : UpdateRole(r, body)
  \/ \E r \in RoleIds : DeleteRole(r)
  \/ \E e \in Emails, r \in RoleIds : InviteCreate(e, r)
  \/ InviteSetToken

SpecRoleRoutes == Init /\ [][NextRoleRoutes]_vars

(* The life of an invited account: invitation, verification of the token,  *)
(* activation, login, own password change, deactivation                    *)
AccountPasswords == {TemporaryPassword(1), "NewPass123!"}

NextAccount ==
  \/ \E r \in SeedRoleIds : InviteCreate("a@x.com", r)
  \/ InviteSetToken
  \/ \E p \in ActProcs, t \in Tokens, pw \in NewPasswords :
        ActivateFind(p, t, pw)
  \/ \E p \in ActProcs : ActivateUpdate(p)
  \/ \E t \in Tokens : VerifyToken(t)
  \/ \E pw \in AccountPasswords : Login("a@x.com", pw)
  \/ AdminUpdateUser(2, [status |-> "inactive"])
  \/ \E jwt \in sessions, set \in BOOLEAN,
        cur \in AccountPasswords, new \in NewPasswords :
        ChangeOwnPassword(jwt, IF set THEN jwt.userId ELSE NoUser, cur, new)
  \/ \E p \in PermIds : RemovePermissionFromRole(2, p)
  \/ \E d \in {InviteTTL, InviteTTL + 1} : Tick(d)

SpecAccount == Init /\ [][NextAccount]_vars

(* Password reset requests and the lookup of a reset token; the clock of   *)
(* this specification counts hours                                         *)
NextReset ==
  \/ \E e \in Emails \cup {UnknownEmail, ""} : PasswordReset(e)
  \/ \E e \in Emails \cup {UnknownEmail, ""} : PasswordResetStored(e)
  \/ \E t \in Tokens : ResetLookup(t)
  \/ \E u \in UserIds : ClearPasswordResetToken(u)
  \/ \E r \in SeedRoleIds : InviteCreate("a@x.com", r)
  \/ Tick(1)

SpecReset == Init /\ [][NextReset]_vars

(* Concurrent requests that create and rename roles *)
NextRoleNames ==
  \/ \E p \in RoleProcs, n \in RoleNames \cup {""} :
        RoleNameCheck(p, "POST /roles", NoRole, n)
  \/ \E p \in RoleProcs, r \in RoleIds, n \in RoleNames :
        RoleNameCheck(p, "PUT /roles/:id", r, n)
  \/ \E p \in RoleProcs : RoleNameWrite(p)
  \/ \E r \in RoleIds : DeleteRole(r)

SpecRoleNames == Init /\ [][NextRoleNames]_vars

(* The routes that write the users table on behalf of a caller *)
NextUsers ==
  \/ \E r \in {2, NoRole} : InviteCreate("a@x.com", r)
  \/ InviteSetToken
  \/ \E e \in Emails, pw \in AccountPasswords \cup {AdminPassword} :
        Login(e, pw)
  \/ \E jwt \in sessions \cup {NoJwt}, id \in UserIds \cup {NoUser},
        body \in UserBodies : PutUser(jwt, id, body)
  \/ \E jwt \in sessions \cup {NoJwt}, set \in BOOLEAN, body \in ProfileBodies :
        EditProfile(jwt, IF set THEN jwt.userId ELSE NoUser, body)
  \/ \E jwt \in sessions \cup {NoJwt}, set \in BOOLEAN :
        ChangeOwnPassword(jwt, IF set THEN jwt.userId ELSE NoUser,
                          TemporaryPassword(1), "NewPass123!")

SpecUsers == Init /\ [][NextUsers]_vars

(* Invitations with their mail, and the reset request of the auth routes *)
NextMail ==
  \/ Login("admin@x.com", AdminPassword)
  \/ \E jwt \in sessions \cup {NoJwt}, e \in {"a@x.com", ""},
        r \in {2, 3, NoRole}, mode \in MailModes : InviteUser(jwt, e, r, mode)
  \/ \E jwt \in sessions \cup {NoJwt}, u \in UserIds \cup {NoUser},
        mode \in MailModes : ResendInvitation(jwt, u, mode)
  \/ \E e \in {"admin@x.com", UnknownEmail} : PasswordReset(e)
  \/ AdminUpdateUser(2, [status |-> "active"])

SpecMail == Init /\ [][NextMail]_vars

(* Logins, and principals with and without a role at the list checks *)
NextPermissions ==
  \/ \E r \in {2, NoRole} : InviteCreate("a@x.com", r)
  \/ InviteSetToken
  \/ AdminUpdateUser(2, [status |-> "active"])
  \/ \E e \in Emails \cup {UnknownEmail},
        pw \in {AdminPassword, TemporaryPassword(1), ""} : Login(e, pw)
  \/ \E p \in PermIds : AddPermissionToRole(2, p)
  \/ \E p \in PermIds : RemovePermissionFromRole(2, p)
  \/ \E jwt \in sessions \cup {NoJwt}, L \in PermissionLists :
        CheckAnyPermission(jwt, L)

SpecPermissions == Init /\ [][NextPermissions]_vars

(* Calls of authenticate while accounts are invited, updated and logged in. *)
(* The callback of a call that is verifying is eventually run              *)
NextAuthenticate ==
  \/ \E r \in {2, NoRole} : InviteCreate("a@x.com", r)
  \/ InviteSetToken
  \/ \E s \in Statuses : AdminUpdateUser(2, [status |-> s])
  \/ \E e \in Emails, pw \in {AdminPassword, TemporaryPassword(1)} :
        Login(e, pw)
  \/ \E jwt \in sessions \cup {NoJwt}, err \in BOOLEAN : AuthCall(jwt, err)
  \/ AuthCallback

SpecAuthenticate ==
  Init /\ [][NextAuthenticate]_vars /\ WF_vars(AuthCallback)

----------------------------------------------------------------------------
(* Claims on activation *)

\* C1 (as claimed): of two concurrent activate calls that present the same
\* token, at most one is answered with success.
C1_OneActivationPerToken ==
  \A p, q \in ActProcs :
    (p # q /\ act[p].token = act[q].token /\ act[p].reply = OK200)
      => act[q].reply # OK200

\* The step of caller p that receives a call and runs its select
IsActivateFind(p) == act[p].pc # "found" /\ act'[p] # act[p]
\* The step of caller p that runs its update and replies
IsActivateUpdate(p) == act[p].pc = "found" /\ act'[p].pc = "done"

\* What the first activate call with a stored, unexpired token and a password
\* of at least 8 characters does: it goes on to its update, and the update
\* replies success, sets the status to active and clears the token.
FirstActivationSucceeds(p) ==
  /\ (/\ IsActivateFind(p)
      /\ GetUserByInvitationToken(users, act'[p].token) # NoUser
      /\ act'[p].token # NoToken
      /\ now <= users[GetUserByInvitationToken(users, act'[p].token)]
                  .invitationExpires
      /\ Len(act'[p].newPassword) >= MinPasswordLength)
     => (act'[p].pc = "found"
         /\ act'[p].user = GetUserByInvitationToken(users, act'[p].token))
  /\ IsActivateUpdate(p)
     => (/\ act'[p].reply = OK200
         /\ users'[act[p].user].status = "active"
         /\ users'[act[p].user].passwordHash = Hash(act[p].newPassword)
         /\ users'[act[p].user].invitationToken = NoToken)

\* C2 (as claimed): the first activate succeeds, and every later activate with
\* the same token, whatever password it carries, is answered with the
\* invalid-token failure and changes no account.
C2_LaterActivateIsInvalidToken ==
  [][\A p \in ActProcs :
       /\ FirstActivationSucceeds(p)
       /\ (IsActivateFind(p) /\ act'[p].token \in consumed
           /\ act'[p].newPassword # "")
          => (act'[p].reply = InvalidToken400 /\ users' = users)]_vars

\* C2 (amended): the first activate succeeds, and every later activate with the
\* same token fails and changes no account: with the invalid-token failure when
\* its password has at least 8 characters, with the validation failure of the
\* password (missing, or too short) otherwise.
C2_ActivationExactlyOnce ==
  [][\A p \in ActProcs :
       /\ FirstActivationSucceeds(p)
       /\ (IsActivateFind(p) /\ act'[p].token \in consumed)
          => (/\ act'[p].pc = "done"
              /\ act'[p].reply =
                   IF act'[p].newPassword = "" THEN Required400
                   ELSE IF Len(act'[p].newPassword) < MinPasswordLength
                        THEN TooShort400
                        ELSE InvalidToken400
              /\ users' = users)]_vars

\* C2 witness: a token was consumed by an activation that made its account
\* active, and a later call with that token and a long enough password was
\* answered with the invalid-token failure.
C2_Witness ==
  \E p \in ActProcs, u \in UserIds :
    /\ act[p].late /\ act[p].token \in consumed
    /\ Len(act[p].newPassword) >= MinPasswordLength
    /\ act[p].reply = InvalidToken400
    /\ u # 1 /\ users[u].status = "active"
    /\ users[u].invitationToken = NoToken

\* C10 (as claimed): an activate call whose select returned an account that is
\* suspended or active changes neither the status nor the password of it.
C10_ActivateOnlyFromInvited ==
  [][\A p \in ActProcs :
       (IsActivateUpdate(p) /\ act[p].status \in {"suspended", "active"}
        /\ users[act[p].user].status = act[p].status)
         => (/\ users'[act[p].user].status = users[act[p].user].status
             /\ users'[act[p].user].passwordHash
                  = users[act[p].user].passwordHash)]_vars

----------------------------------------------------------------------------
(* Claims on login and on the gate *)

\* The token payload of user u
PayloadOf(u) == [userId |-> u, email |-> Committed[u].email, role |-> ""]

\* The permission names assigned in the store to the role of user u
StoredPermissions(u) ==
  IF Committed[u].roleId = NoRole THEN {}
  ELSE {PermName[i] : i \in CommittedRolePermissions[Committed[u].roleId]}

CatalogNames == {PermName[i] : i \in PermIds}

\* C3: for every user and every permission of the catalog, hasPermission and
\* requirePermission on the resolved principal allow exactly when the
\* permission is assigned in the store to the role of the user; a user without
\* a role is denied every permission, and a request without a principal is
\* answered 401 for every permission.
C3_PermissionCheckMatchesStore ==
  \A p \in CatalogNames :
    /\ \A u \in UserIds :
         Committed[u].exists =>
           /\ HasPermission(JwtVerify(PayloadOf(u)), p)
                <=> p \in StoredPermissions(u)
           /\ RequirePermission(p, Request(JwtVerify(PayloadOf(u)), NoReply)).reply
                = (IF p \in StoredPermissions(u) THEN NoReply ELSE Insufficient403)
           /\ Committed[u].roleId = NoRole
                => ~HasPermission(JwtVerify(PayloadOf(u)), p)
    /\ RequirePermission(p, Request(NoProfile, NoReply)).reply = Unauthorized401

\* C3 witness: a request passed the permission check of PUT /roles/:id for a
\* user whose role got user.manage_roles assigned after the seed, while
\* another user has no role.
C3_Witness ==
  /\ req.route = "PUT /roles/:id" /\ req.reply = NoReply
  /\ req.userId # NoUser
  /\ users[req.userId].exists /\ users[req.userId].roleId = 2
  /\ 3 \in rolePermissions[2]
  /\ 1 \notin rolePermissions[2]

\* C4: a login with an unknown email or a wrong password gets the same
\* invalid-credentials reply whatever the account and its status (the
\* internal-error reply when the connection cannot run the query), and the
\* account-not-active reply is given only for the correct password of an
\* account that is not active.
C4_LoginHidesFailureCause ==
  \A e \in Emails \cup {UnknownEmail}, pw \in LoginPasswords :
    LET u == GetUserByEmail(users, e)
        correct == u # NoUser /\ Compare(pw, users[u].passwordHash) IN
    /\ ~correct => LoginReply(e, pw) = (IF SessionAborted THEN InternalError500
                                        ELSE InvalidCredentials401)
    /\ LoginReply(e, pw) = AccountInactive403
         => (correct /\ users[u].status # "active")

\* C4 witness: a login was answered account-not-active, and a suspended
\* account exists whose wrong password is answered invalid-credentials and
\* whose correct password is answered account-not-active.
C4_Witness ==
  /\ req.route = "POST /login" /\ req.reply = AccountInactive403
  /\ \E u \in UserIds :
       /\ users[u].exists /\ users[u].status = "suspended"
       /\ LoginReply(users[u].email, "WrongPass00") = InvalidCredentials401
       /\ LoginReply(UnknownEmail, "WrongPass00") = InvalidCredentials401
       /\ LoginReply(users[u].email, TemporaryPassword(1)) = AccountInactive403

\* C5: on every route whose preHandler starts with authenticate, a request
\* with a token of an existing account whose status is not active does not
\* reach the handler, unless the route is one of the allow-listed ones.
C5_NonActiveNeverReachesHandler ==
  \A jwt \in sessions, route \in Routes :
    (/\ Committed[jwt.userId].exists
     /\ Committed[jwt.userId].status # "active"
     /\ route.preHandler[1] = "authenticate"
     /\ route.name \notin AllowedInactiveRoutes)
      => GateReply(jwt, route) # NoReply

\* C5 witness: the request of a suspended account that holds a token was
\* answered 403 at a route guarded by authenticate and requirePermission.
C5_Witness ==
  /\ req.route = "POST /invitations/invite"
  /\ req.reply = AccountInactive403
  /\ \E jwt \in sessions :
       /\ jwt.userId = req.userId
       /\ users[jwt.userId].exists
       /\ users[jwt.userId].status = "suspended"
       /\ "user.invite" \in StoredPermissions(jwt.userId)

\* C6 (as claimed): a request with a token of an existing account whose status
\* is pending or inactive reaches the handler of PUT /profile/password.
C6_PasswordChangeOpenToNonActive ==
  \A jwt \in sessions, route \in Routes :
    (/\ Committed[jwt.userId].exists
     /\ Committed[jwt.userId].status \in {"pending", "inactive"}
     /\ route.name = "PUT /profile/password")
      => GateReply(jwt, route) = NoReply

\* C9: for every token issued by login and every route, the gate decides on
\* the live state: the user is deleted - 401; the status is not active - the
\* 403 of a non-active account; the role of the user does not hold the
\* permission the route requires - 403 insufficient permissions.
C9_ChangesApplyToNextRequest ==
  \A jwt \in sessions, route \in Routes :
    /\ ~Committed[jwt.userId].exists
         => GateReply(jwt, route) = Unauthorized401
    /\ (Committed[jwt.userId].exists /\ Committed[jwt.userId].status # "active")
         => GateReply(jwt, route) = AccountInactive403
    /\ (/\ Committed[jwt.userId].exists
        /\ Committed[jwt.userId].status = "active"
        /\ route.permission # ""
        /\ route.permission \notin StoredPermissions(jwt.userId))
         => GateReply(jwt, route) = Insufficient403

\* C9 witness: a token that says super_admin, of an active user whose role is
\* now admin, was denied at PUT /roles/:id for the permission admin lacks.
C9_Witness ==
  /\ req.route = "PUT /roles/:id" /\ req.reply = Insufficient403
  /\ \E jwt \in sessions :
       /\ jwt.userId = req.userId /\ jwt.role = "super_admin"
       /\ users[jwt.userId].exists
       /\ users[jwt.userId].status = "active"
       /\ users[jwt.userId].roleId = 2

----------------------------------------------------------------------------
(* Claims on the permission assignment *)

\* The last step of a call of setRolePermissions that failed, and of one
\* that returned true
IsTxFailure(t) == tx[t].pc = "rollback" /\ tx'[t].pc = "idle"
IsTxSuccess(t) == tx[t].pc = "commit" /\ tx'[t].pc = "idle"

Range(s) == {s[i] : i \in DOMAIN s}

\* C7 (as claimed): when a statement of setRolePermissions fails and no other
\* call has written the assignments of the same role meanwhile, the role has,
\* once the call has rolled back, the assignments it had when the call began.
C7_FailedAssignmentLeavesSetUnchanged ==
  [][\A t \in TxProcs :
       (IsTxFailure(t) /\ tx[t].alone)
         => rolePermissions'[tx[t].roleId] = tx[t].before]_vars

\* C8 (as claimed): when setRolePermissions(R, S) returns true and no other
\* call has written the assignments of R meanwhile, getRoleById(R) returns the
\* names of the permissions of S, each once.
C8_AssignedSetIsReadBack ==
  [][\A t \in TxProcs :
       (IsTxSuccess(t) /\ tx[t].alone)
         => LET read == GetRolePermissions(rolePermissions', tx[t].roleId, 1) IN
            /\ Range(read) = {PermName[i] : i \in Range(tx[t].permissionIds)}
            /\ Len(read) = Cardinality(Range(read))]_vars

----------------------------------------------------------------------------
(* Claims on the role routes *)

\* C11: a DELETE /roles/:id of a role whose name is in the list of system
\* roles is answered 400 'Cannot delete system roles', and the role, the
\* permission assignments and the users are as before
C11_SystemRoleDeleteIsRefused ==
  [][\A r \in RoleIds :
       (roles[r].exists /\ roles[r].name \in SystemRoles /\ DeleteRole(r))
         => /\ req'.reply = SystemRole400
            /\ roles' = roles
            /\ rolePermissions' = rolePermissions
            /\ users' = users]_vars

\* A system role other than a seeded one has been refused, and so has the
\* role of the seeded administrator
C11_Witness ==
  /\ req.route = "DELETE /roles/:id"
  /\ req.reply = SystemRole400
  /\ roles[1].name = "super_admin"
  /\ \E r \in RoleIds \ SeedRoleIds : roles[r].name \in SystemRoles

\* C12: the role seeded as super_admin exists in every state the role
\* routes reach
C12_SeededSuperAdminRoleExists == roles[1].exists

\* C20: two principals with the same resolved permission set get the same
\* answer from isAdmin and from isSuperAdmin
C20_AdminChecksFollowPermissionSet ==
  \A u, v \in UserIds :
     (Committed[u].exists /\ Committed[v].exists
        /\ JwtVerify(PayloadOf(u)).role.permissions
             = JwtVerify(PayloadOf(v)).role.permissions)
       => /\ IsAdmin(JwtVerify(PayloadOf(u))) = IsAdmin(JwtVerify(PayloadOf(v)))
          /\ IsSuperAdmin(JwtVerify(PayloadOf(u)))
               = IsSuperAdmin(JwtVerify(PayloadOf(v)))

----------------------------------------------------------------------------
(* Claims on the life of an invited account *)

\* C13: while an invited account still has its temporary password, a login
\* with that password is answered 403 and issues no token; the update of an
\* activate call makes the account active, and from then on a login with the
\* e-mail and the new password succeeds and the principal of its token has
\* the permission names assigned to the role of the invitation
C13_InviteActivateLogin ==
  [][/\ \A u \in UserIds \ {1}, n \in Tokens :
          (/\ users[u].exists
           /\ users[u].status = "inactive"
           /\ Compare(TemporaryPassword(n), users[u].passwordHash)
           /\ Login(users[u].email, TemporaryPassword(n)))
            => (req'.reply = AccountInactive403 /\ sessions' = sessions)
     /\ \A p \in ActProcs, u \in UserIds, e \in Emails, pw \in NewPasswords :
          (/\ IsActivateUpdate(p)
           /\ u = act[p].user /\ e = users[u].email
           /\ pw = act[p].newPassword)
            => /\ act'[p].reply = OK200
               /\ users'[u].status = "active"
               /\ LoginReply(e, pw)' = LoginSuccessful200
               /\ JwtVerify(SignToken(u))'.role.permissions
                    = {PermName[i] : i \in rolePermissions'[users[u].roleId]}
    ]_vars

\* The invited user has logged in with the password of the activation, after
\* a login with the temporary password was refused
C13_Witness ==
  /\ req.route = "POST /login" /\ req.reply = LoginSuccessful200
  /\ users[2].status = "active"
  /\ users[2].passwordHash = Hash("NewPass123!")
  /\ consumed # {}
  /\ SignToken(2) \in sessions
  /\ Authenticate(SignToken(2)).userProfile.role.permissions
       = {PermName[i] : i \in rolePermissions[users[2].roleId]}

\* C17: an activate call and a verify call at the instant invitationExpires
\* pass the expiry check; one time unit later both are answered
\* 'Invitation token has expired', and the account is as before
C17_ExpiryBoundary ==
  [][\A t \in Tokens, u \in UserIds :
       (/\ GetUserByInvitationToken(Committed, t) = u
        /\ Committed[u].invitationExpires # NoTime)
         => /\ \A p \in ActProcs, pw \in NewPasswords :
                 (ActivateFind(p, t, pw) /\ Len(pw) >= MinPasswordLength)
                   => /\ now = Committed[u].invitationExpires
                           => (act'[p].pc = "found" /\ act'[p].user = u)
                      /\ now = Committed[u].invitationExpires + 1
                           => (/\ act'[p].pc = "done"
                               /\ act'[p].reply = ExpiredToken400
                               /\ users' = users)
            /\ (VerifyToken(t) /\ Committed[u].status # "active")
                 => /\ now = Committed[u].invitationExpires
                         => req'.reply = TokenValid200
                    /\ now = Committed[u].invitationExpires + 1
                         => (req'.reply = ExpiredToken400 /\ users' = users)
    ]_vars

\* At the instant of expiry the token has been verified as valid and an
\* activate call has passed its checks
C17_Witness ==
  \E p \in ActProcs :
    /\ act[p].pc = "found"
    /\ users[act[p].user].invitationToken = act[p].token
    /\ now = users[act[p].user].invitationExpires
    /\ req.route = "GET /invitations/verify/:token"
    /\ req.reply = TokenValid200

\* C19: a PUT /profile/password of an inactive user with the current password
\* and a new password of at least 8 characters replaces the hash and makes
\* the account active
C19_PasswordChangeActivates ==
  [][\A jwt \in sessions, cur \in AccountPasswords, new \in NewPasswords :
       (/\ ChangeOwnPassword(jwt, jwt.userId, cur, new)
        /\ users[jwt.userId].exists
        /\ users[jwt.userId].status = "inactive"
        /\ Compare(cur, users[jwt.userId].passwordHash)
        /\ Len(new) >= MinPasswordLength)
         => /\ users'[jwt.userId].passwordHash = Hash(new)
            /\ users'[jwt.userId].status = "active"]_vars

----------------------------------------------------------------------------
(* Claims on resend and on the columns activate writes *)

\* The step of resend that writes the new credentials and the new token
IsResendWrite == inv.pc = "resending" /\ inv'.pc = "idle"

\* C15: the update of resend stores the new token with a fresh expiry and the
\* hash of a new temporary password and leaves the status as it is; it is
\* never applied to an active account; and no activate call succeeds with a
\* token other than the one the account holds
C15_ResendReplacesInvitation ==
  [][/\ IsResendWrite
          => /\ users[inv.user].status # "active"
             /\ users'[inv.user].status = users[inv.user].status
             /\ users'[inv.user].invitationToken = inv.n
             /\ users'[inv.user].invitationExpires = now + InviteTTL
             /\ users'[inv.user].passwordHash
                  = Hash(TemporaryPassword(inv.n))
     /\ \A p \in ActProcs :
          IsActivateUpdate(p)
            => users[act[p].user].invitationToken = act[p].token]_vars

\* C16: the update of activate replaces the hash, clears the token and its
\* expiry, stamps activatedAt with the time of the call and sets the status
\* to active, and changes nothing else in the users table
C16_ActivateWritesExactlyItsColumns ==
  [][\A p \in ActProcs :
       IsActivateUpdate(p)
         => users' = UpdateUser(users, act[p].user,
                        [passwordHash |-> Hash(act[p].newPassword),
                         invitationToken |-> NoToken,
                         invitationExpires |-> NoTime,
                         activatedAt |-> now,
                         status |-> "active"])]_vars

----------------------------------------------------------------------------
(* Claims on password reset *)

\* C14: POST /password-reset answers a request for the e-mail of an account
\* exactly as it answers a request for an e-mail that has no account, and a
\* request for an e-mail that has no account leaves the users table as it is
C14_ResetReplyHidesExistence ==
  [][\A e \in Emails \cup {UnknownEmail} :
       PasswordReset(e)
         => /\ req'.reply = ResetSent200
            /\ GetUserByEmail(users, e) = NoUser => users' = users]_vars

\* C18: getUserByPasswordResetToken returns the user of a stored token when
\* the clock is at resetPasswordExpires, and no user when the clock is past it
C18_ResetTokenValidThroughExpiry ==
  \A u \in UserIds :
     (users[u].exists /\ users[u].resetPasswordToken # NoToken)
       => /\ now = users[u].resetPasswordExpires
               => GetUserByPasswordResetToken(users, users[u].resetPasswordToken)
                    = u
          /\ now > users[u].resetPasswordExpires
               => GetUserByPasswordResetToken(users, users[u].resetPasswordToken)
                    = NoUser

----------------------------------------------------------------------------
(* Claims on the role reference of users and on role names *)

\* C21: every user has no role or the id of an existing role; a DELETE of a
\* role leaves its users in the table with the role reference set to null
\* and nothing else changed, and each of them is then refused every
\* permission of the catalog
C21_UsersReferenceExistingRoles ==
  /\ [](\A u \in UserIds :
          users[u].exists
            => (users[u].roleId = NoRole \/ roles[users[u].roleId].exists))
  /\ [][\A r \in RoleIds, u \in UserIds :
          (DeleteRole(r) /\ req'.reply = RoleDeleted200 /\ u \in UsersOfRole(r))
            => /\ users'[u] = [users[u] EXCEPT !.roleId = NoRole]
               /\ \A perm \in CatalogNames :
                    ~HasPermission(JwtVerify(PayloadOf(u)), perm)']_vars

\* The role of the invited user has been deleted, and the user is still there
C21_Witness ==
  /\ req.route = "DELETE /roles/:id" /\ req.reply = RoleDeleted200
  /\ users[2].exists /\ users[2].roleId = NoRole
  /\ \A perm \in CatalogNames : ~HasPermission(JwtVerify(PayloadOf(2)), perm)

\* The step of caller p that runs the INSERT or UPDATE and replies
IsRoleNameWrite(p) == roleCalls[p].pc = "checked" /\ roleCalls'[p].pc = "done"

\* C22: no two roles have the same name; a create or rename whose name another
\* role has, at the check of the handler or at its write, is answered 409
\* 'Role name already exists' and changes no role
C22_RoleNamesUniqueAndCollisionsRefused ==
  /\ [](\A r, q \in RoleIds :
          (r # q /\ roles[r].exists /\ roles[q].exists)
            => roles[r].name # roles[q].name)
  /\ [][\A p \in RoleProcs :
          (IsRoleNameWrite(p) /\ NameTaken(roleCalls[p].id, roleCalls[p].name))
            => (roleCalls'[p].reply = RoleNameExists409 /\ roles' = roles)
       ]_vars

----------------------------------------------------------------------------
(* Claims on who may set an account status *)

\* The caller behind the token is authenticated, active, and its role holds
\* user.update
MayUpdateUsers(jwt) ==
  /\ jwt \in sessions
  /\ Committed[jwt.userId].exists
  /\ Committed[jwt.userId].status = "active"
  /\ "user.update" \in StoredPermissions(jwt.userId)

\* C23: a PUT /users/:id with an account status in its body is applied (the
\* target gets the status) only for an authenticated, active caller with
\* user.update; for every other caller it is answered 401 or 403 and no
\* field of any user changes.  PUT /profile and PUT /profile/password
\* change the status of no user
C23_OnlyUserManagersSetStatus ==
  /\ [][req'.route = UsersRoute.name
          => \A jwt \in sessions \cup {NoJwt}, id \in UserIds,
                body \in UserBodies :
               (/\ req'.userId = jwt.userId
                /\ "status" \in DOMAIN body
                /\ PutUser(jwt, id, body))
                 => IF MayUpdateUsers(jwt)
                    THEN req'.reply = UserUpdated200
                           => users'[id].status = body.status
                    ELSE req'.reply.code \in {401, 403} /\ users' = users
       ]_vars
  /\ [][req'.route \in {ProfileRoute.name, PasswordRoute.name}
          => \A u \in UserIds : users'[u].status = users[u].status]_vars

\* The invited account, made active by the administrator, has logged in; its
\* PUT /users/:id was refused for the missing permission
C23_Witness ==
  /\ req.route = UsersRoute.name /\ req.userId = 2
  /\ req.reply = Insufficient403
  /\ users[2].status = "active" /\ users[1].status = "active"

----------------------------------------------------------------------------
(* Claims on the mail of the invitation and on what reaches the log *)

\* C24: when the transporter rejects the mail of an invite or a resend, the
\* handler keeps what it wrote: the user is in the table with status
\* inactive, the hash of the temporary password and the invitation token
\* with its expiry; and a resend for an inactive user by a caller with
\* user.invite is answered 200
C24_FailedMailKeepsInvitation ==
  /\ [][\A jwt \in sessions, r \in RoleIds \cup {NoRole}, u \in UserIds :
          (req'.route = InviteRoute.name
             /\ InviteUser(jwt, "a@x.com", r, "failed")
             /\ InviteUserReply(jwt, "a@x.com", r) = InvitationSent201
             /\ u = nextUserId)
            => /\ users'[u].exists /\ users'[u].email = "a@x.com"
               /\ users'[u].status = "inactive"
               /\ users'[u].passwordHash = Hash(TemporaryPassword(nextToken))
               /\ users'[u].invitationToken = nextToken
               /\ users'[u].invitationExpires = now + InviteTTL
               /\ ResendReply(jwt, u)' = InvitationResent200]_vars
  /\ [][\A jwt \in sessions, u \in UserIds :
          (req'.route = ResendRoute.name
             /\ ResendInvitation(jwt, u, "failed")
             /\ ResendReply(jwt, u) = InvitationResent200)
            => /\ users'[u] =
                    [users[u] EXCEPT
                       !.passwordHash = Hash(TemporaryPassword(nextToken)),
                       !.invitationToken = nextToken,
                       !.invitationExpires = now + InviteTTL]
               /\ ResendReply(jwt, u)' = InvitationResent200]_vars

\* The mail of the invite was rejected by the transporter, and the resend
\* that followed stored the second token
C24_Witness ==
  /\ \E msg \in mail : ~msg.sent /\ msg.text.invitationToken = 1
  /\ req.route = ResendRoute.name /\ req.reply = InvitationResent200
  /\ users[2].exists /\ users[2].status = "inactive"
  /\ users[2].invitationToken = 2
  /\ users[2].passwordHash = Hash(TemporaryPassword(2))

\* C27: no console line carries a temporary password or a reset token, and
\* no response body carries a reset token; the temporary password of an
\* invitation is found in the mail handed to the transporter and nowhere else
C27_SecretsOnlyInMail ==
  /\ \A line \in log :
       line.temporaryPassword = "" /\ line.resetToken = NoResetToken
  /\ "resetToken" \notin DOMAIN req.reply
  /\ "temporaryPassword" \notin DOMAIN req.reply

----------------------------------------------------------------------------
(* Claims on the list checks of PermissionService *)

\* C25: for every user and every list L of permissions, hasAnyPermission on
\* the resolved principal is true exactly when the permissions stored for
\* the role of the user meet L (false for the empty list), hasAllPermissions
\* exactly when they contain L (true for the empty list); a user without a
\* role has the empty set.  requireAnyPermission lets an active caller
\* through exactly when hasAnyPermission is true
C25_ListChecksMatchStore ==
  /\ \A u \in UserIds, L \in PermissionLists :
       LET user == JwtVerify(PayloadOf(u)) IN
       /\ HasAnyPermission(user, L)
            <=> (Range(L) \cap StoredPermissions(u) # {})
       /\ HasAllPermissions(user, L)
            <=> (Range(L) \subseteq StoredPermissions(u))
       /\ Committed[u].roleId = NoRole
            => (~HasAnyPermission(user, L)
                  /\ (HasAllPermissions(user, L) <=> L = <<>>))
  /\ \A jwt \in sessions, L \in PermissionLists :
       LET request == Authenticate(jwt) IN
       request.reply = NoReply
         => (RequireAnyPermission(L, request).reply = NoReply
               <=> Range(L) \cap StoredPermissions(jwt.userId) # {})

\* The invited user is active with a role that holds some permissions but
\* not all of them, and its request was refused for a list it does not meet
C25_Witness ==
  /\ req.route = "requireAnyPermission" /\ req.userId = 2
  /\ req.reply = Insufficient403
  /\ StoredPermissions(2) # {}
  /\ \E L \in PermissionLists :
       LET user == JwtVerify(PayloadOf(2)) IN
       HasAnyPermission(user, L) /\ ~HasAllPermissions(user, L)

----------------------------------------------------------------------------
(* Claims on what a login writes *)

\* C26: a POST /login with both fields, the email of a user, its password and
\* status active writes now to lastLogin of that user and nothing else, and
\* issues one token with the user id, the email, the name of the role and
\* the expiry option; every other login is answered 400, 401 or 403, issues
\* no token and changes no field of any user
C26_LoginWritesLastLoginAndToken ==
  [][req'.route = "POST /login"
       => \A e \in Emails \cup {UnknownEmail, ""}, pw \in LoginPasswords \cup {""} :
            Login(e, pw)
              => LET u == GetUserByEmail(users, e) IN
                 IF /\ e # "" /\ pw # "" /\ u # NoUser
                    /\ Compare(pw, users[u].passwordHash)
                    /\ users[u].status = "active"
                 THEN /\ req'.reply = LoginSuccessful200
                      /\ users' = [users EXCEPT ![u].lastLogin = now]
                      /\ sessions' = sessions \cup
                           {[userId |-> u, email |-> e,
                             role |-> RoleName(users[u].roleId),
                             expiresIn |-> JwtExpiresIn]}
                 ELSE /\ req'.reply.code \in {400, 401, 403}
                      /\ users' = users
                      /\ sessions' = sessions
    ]_vars

\* The invited user, made active, has logged in: its token names its role
C26_Witness ==
  /\ req.route = "POST /login" /\ req.reply = LoginSuccessful200
  /\ users[2].exists /\ users[2].lastLogin = now
  /\ users[2].roleId # NoRole
  /\ [userId |-> 2, email |-> users[2].email,
      role |-> RoleName(users[2].roleId), expiresIn |-> JwtExpiresIn]
       \in sessions

----------------------------------------------------------------------------
(* Claims on the stored reset token *)

\* C28: a POST /password-reset for the email of a user leaves its status and
\* its password hash, and stores a reset token with resetPasswordExpires one
\* hour after the request; afterwards no token but the stored one resolves to
\* the user.  After clearPasswordResetToken no token resolves to the user
C28_ResetRequestStoresLatestToken ==
  /\ [][\A e \in Emails, u \in UserIds :
          (u = GetUserByEmail(users, e)
             /\ (PasswordReset(e) \/ PasswordResetStored(e)))
            => /\ users'[u].status = users[u].status
               /\ users'[u].passwordHash = users[u].passwordHash
               /\ users'[u].resetPasswordToken \notin
                    {NoToken, users[u].resetPasswordToken}
               /\ users'[u].resetPasswordExpires = now + ResetTTL
               /\ \A t \in Tokens :
                    GetUserByPasswordResetToken(users, t)' = u
                      <=> t = users'[u].resetPasswordToken]_vars
  /\ [][\A u \in UserIds :
          ClearPasswordResetToken(u)
            => \A t \in Tokens : GetUserByPasswordResetToken(users, t)' # u
       ]_vars

----------------------------------------------------------------------------
(* Claims on the isolation of requests on the shared connection *)

\* The step of call t that runs its DELETE or one of its INSERTs
IsTxStatement(t) ==
  /\ tx[t].pc \in {"delete", "insert"}
  /\ tx'[t].pc # tx[t].pc \/ tx'[t].i # tx[t].i

\* C29: a DELETE or INSERT of a call of setRolePermissions runs in the open
\* transaction only while no other call is between its BEGIN and its COMMIT
\* or ROLLBACK, and the ROLLBACK of a call changes the assignments of no
\* role but its own
C29_RequestsIsolatedOnSharedConnection ==
  [][\A t \in TxProcs :
       /\ (IsTxStatement(t) /\ conn.inTx)
            => \A q \in TxProcs \ {t} : tx[q].pc = "idle"
       /\ IsTxFailure(t)
            => \A r \in RoleIds \ {tx[t].roleId} :
                 rolePermissions'[r] = rolePermissions[r]]_vars

----------------------------------------------------------------------------
(* Claims on the promise of authenticate *)

\* C30: a call of authenticate ends in exactly one of a 401 or 403 reply, a
\* propagated error and an attached principal, and the promise of every call
\* is eventually settled
C30_AuthenticateSettles ==
  /\ [](authCall.pc \in {"replied", "resolved", "rejected"}
          => /\ authCall.pc = "replied"
                  <=> authCall.reply \in {Unauthorized401, AccountInactive403}
             /\ authCall.pc = "resolved" <=> authCall.userProfile.defined
             /\ authCall.pc = "rejected" <=> authCall.err)
  /\ (authCall.pc = "verifying")
        ~> (authCall.pc \in {"resolved", "rejected"})

(* POST /roles and PUT /roles/:id with permission lists in their bodies *)
NextRoleWrites ==
  \/ \E n \in RoleNames \cup {""}, L \in PermLists \cup {<<>>} : CreateRole(n, L)
  \/ \E r \in RoleIds, body \in RoleBodies : UpdateRole(r, body)
  \/ \E r \in RoleIds : DeleteRole(r)

SpecRoleWrites == Init /\ [][NextRoleWrites]_vars

(* Concurrent registrations and email updates, next to invitations *)
NextEmails ==
  \/ \E p \in EmailProcs, e \in Emails \cup {""} :
        EmailCheck(p, "POST /register", NoUser, e)
  \/ \E p \in EmailProcs, u \in UserIds \cup {NoUser},
        e \in Emails \cup {"b@x.com"} : EmailCheck(p, "PUT /users/:id", u, e)
  \/ \E p \in EmailProcs : EmailWrite(p)
  \/ InviteCreate("a@x.com", NoRole)
  \/ InviteSetToken
  \/ DeleteUser(2)

SpecEmails == Init /\ [][NextEmails]_vars

(* The statements on role_permissions, on roles and on permissions; role 3 *)
(* is in no state of this specification a row of roles                     *)
NextAssignments ==
  \/ \E r \in {2, 3}, p \in PermIds : InsertRolePermission(r, p)
  \/ \E p \in PermIds : DeleteRolePermission(2, p)
  \/ \E r \in {2, 3}, L \in PermLists : ReplaceRolePermissions(r, L)
  \/ \E r \in SeedRoleIds : DeleteRoleCascade(r)
  \/ \E p \in PermIds : DeletePermission(p)

SpecAssignments == Init /\ [][NextAssignments]_vars

(* Password changes of the administrator and of an invited account, and  *)
(* logins with the old and the new passwords                              *)
PasswordInputs == {AdminPassword, TemporaryPassword(1), "NewPass123!"}

NextPassword ==
  \/ InviteCreate("a@x.com", 2)
  \/ InviteSetToken
  \/ \E st \in {"active", "suspended"} : AdminUpdateUser(2, [status |-> st])
  \/ \E e \in Emails, pw \in PasswordInputs : Login(e, pw)
  \/ \E jwt \in sessions \cup {NoJwt}, set \in BOOLEAN,
        cur \in PasswordInputs \cup {""},
        new \in {"", "short", "NewPass123!", AdminPassword} :
        ChangeOwnPassword(jwt, IF set THEN jwt.userId ELSE NoUser, cur, new)

SpecPassword == Init /\ [][NextPassword]_vars

----------------------------------------------------------------------------
(* Claims on DELETE /users/:id and on resend against activate *)

\* C31: a user whose role is the seeded super_admin role is in the table
\* after every step: DELETE /users/:id leaves the record
C31_SuperAdminUserIsNeverDeleted ==
  [][\A u \in UserIds :
       (users[u].exists /\ RoleName(users[u].roleId) = SeedRoles[1])
         => users'[u].exists]_vars

\* C32: after the write of a resend or of an activate on an account that an
\* activate call has activated, the account, if active, holds no invitation
\* token and its hash is the hash of a password chosen in activate, not that
\* of a temporary password
C32_ResendAndActivateEndConsistent ==
  [][\A u \in UserIds :
       (/\ \/ IsResendWrite /\ inv.user = u
           \/ \E p \in ActProcs : IsActivateUpdate(p) /\ act[p].user = u
        /\ users'[u].status = "active"
        /\ \E p \in ActProcs :
             act'[p].pc = "done" /\ act'[p].reply = OK200 /\ act'[p].user = u)
         => /\ users'[u].invitationToken = NoToken
            /\ \E pw \in NewPasswords : users'[u].passwordHash = Hash(pw)]_vars

----------------------------------------------------------------------------
(* checkAccountActive: the status check with its list of exempted URLs     *)

\* String.prototype.includes
Includes(s, t) ==
  \E i \in 1..(Len(s) - Len(t) + 1) : SubSeq(s, i, i + Len(t) - 1) = t

allowedInactiveRoutes == {"/profile/password", "/auth/logout", "/activate-account"}

\* request.url of the requests: paths with and without a query string
RequestUrls ==
  {"/profile/password", "/auth/logout", "/activate-account", "/profile",
   "/users", "/users?next=/auth/logout", "/roles/2",
   "/roles/2?from=/profile/password"}

\* The path of a URL: the part in front of its query string
PathOf(url) ==
  IF \E i \in 1..Len(url) : SubSeq(url, i, i) = "?"
  THEN LET i == CHOOSE i \in 1..Len(url) :
                  /\ SubSeq(url, i, i) = "?"
                  /\ \A j \in 1..(i - 1) : SubSeq(url, j, j) # "?" IN
       SubSeq(url, 1, i - 1)
  ELSE url

\* checkAccountActive
CheckAccountActive(url, request) ==
  IF ~request.userProfile.defined THEN request
  ELSE IF \E route \in allowedInactiveRoutes : Includes(url, route)
       THEN request
  ELSE IF request.userProfile.accountStatus # "active"
       THEN Request(request.userProfile, ActivationRequired403)
  ELSE request

\* A request with the principal of its token attached, at checkAccountActive
CheckActive(jwt, url) ==
  LET request == Request(IF jwt \in sessions THEN JwtVerify(jwt)
                         ELSE NoProfile, NoReply) IN
  /\ req' = [userId |-> jwt.userId, route |-> url,
              reply |-> CheckAccountActive(url, request).reply]
  /\ UNCHANGED <<users, roles, rolePermissions, conn, now, nextToken,
                 nextUserId, inv, act, consumed, sessions, tx, roleCalls,
                 mail, log, authCall,
                 emailCalls, permissionTable,
                 rolePermissionRows, daoResult>>

(* Principals of every status at checkAccountActive *)
NextInactive ==
  \/ \E r \in {2, NoRole} : InviteCreate("a@x.com", r)
  \/ InviteSetToken
  \/ \E e \in Emails, pw \in {AdminPassword, TemporaryPassword(1)} : Login(e, pw)
  \/ \E s \in {"active", "suspended"} : AdminUpdateUser(2, [status |-> s])
  \/ \E jwt \in sessions \cup {NoJwt}, url \in RequestUrls : CheckActive(jwt, url)

SpecInactive == Init /\ [][NextInactive]_vars

\* C33: a principal that is not active is answered 403 by checkAccountActive
\* at every URL whose path holds none of the three exempted routes, whatever
\* the query string of the URL
C33_OnlyExemptedRoutesPassInactive ==
  [][\A jwt \in sessions, url \in RequestUrls :
       (/\ req'.route = url
        /\ CheckActive(jwt, url)
        /\ JwtVerify(jwt).defined
        /\ JwtVerify(jwt).accountStatus # "active"
        /\ ~\E route \in allowedInactiveRoutes : Includes(PathOf(url), route))
         => req'.reply = ActivationRequired403]_vars

\* C34: in every state, a record that invite created and that no activate
\* call has activated holds an invitation token and its expiry
C34_InvitedHoldTokenUntilActivated ==
  \A u \in UserIds \ {1} :
    (/\ users[u].exists
     /\ users[u].status = "inactive"
     /\ ~\E p \in ActProcs : act[p].user = u /\ act[p].pc # "idle")
      => /\ users[u].invitationToken # NoToken
         /\ users[u].invitationExpires # NoTime

\* C35: a POST /roles that does not answer 201 has created no role, and a
\* PUT /roles/:id that does not answer 200 leaves the name and the
\* permission set of every role as they were
C35_FailedRoleWriteChangesNothing ==
  /\ [][\A n \in RoleNames \cup {""}, L \in PermLists \cup {<<>>} :
          (req'.route = "POST /roles" /\ CreateRole(n, L)
             /\ CreateRoleReply(n, L) # RoleCreated201)
            => roles' = roles /\ rolePermissions' = rolePermissions]_vars
  /\ [][\A r \in RoleIds, body \in RoleBodies :
          (req'.route = "PUT /roles/:id" /\ UpdateRole(r, body)
             /\ UpdateRoleReply(r, body) # RoleUpdated200)
            => roles' = roles /\ rolePermissions' = rolePermissions]_vars

----------------------------------------------------------------------------
(* Claims on the emails of the users *)

\* The step of caller p that runs the INSERT or UPDATE and replies
IsEmailWrite(p) == emailCalls[p].pc = "checked" /\ emailCalls'[p].pc = "done"

\* C36: no two users have the same email; a registration or an email update
\* whose email another user has, at the check of the handler or at its
\* write, is answered with the 409 of its route and changes no user
C36_EmailsUniqueAndCollisionsRefused ==
  /\ [](\A u, v \in UserIds :
          (u # v /\ users[u].exists /\ users[v].exists)
            => users[u].email # users[v].email)
  /\ [][\A p \in EmailProcs :
          (IsEmailWrite(p) /\ EmailTaken(emailCalls[p].id, emailCalls[p].email))
            => /\ emailCalls'[p].reply \in {RegisterExists409, EmailInUse409}
               /\ users' = users]_vars

----------------------------------------------------------------------------
(* Claims on the rows of role_permissions *)

\* C37: in every state every (role, permission) pair is a row of
\* role_permissions at most once and references a row of roles and a row of
\* permissions; an addPermissionToRole of a pair that is a row changes no
\* row and returns false
C37_AssignmentsUniqueAndReferenced ==
  /\ [](\A pair \in BagToSet(rolePermissionRows) :
          /\ CopiesIn(pair, rolePermissionRows) = 1
          /\ roles[pair[1]].exists
          /\ pair[2] \in permissionTable)
  /\ [][\A r \in RoleIds, p \in PermIds :
          (/\ daoResult'.op = "addPermissionToRole"
           /\ InsertRolePermission(r, p)
           /\ CopiesIn(<<r, p>>, rolePermissionRows) > 0)
            => /\ rolePermissionRows' = rolePermissionRows
               /\ daoResult'.result = "false"]_vars

\* A pair that is a row was added again, after a role and a permission with
\* assignments were deleted
C37_Witness ==
  /\ daoResult = [op |-> "addPermissionToRole", result |-> "false"]
  /\ ~roles[1].exists
  /\ permissionTable # PermIds
  /\ rolePermissionRows # SetToBag({})

----------------------------------------------------------------------------
(* Claims on PUT /profile/password *)

\* The step is PUT /profile/password of the principal of jwt with the two
\* passwords
IsChangeOwnPassword(jwt, cur, new) ==
  /\ req'.route = PasswordRoute.name
  /\ req'.userId = jwt.userId
  /\ \E set \in BOOLEAN :
        ChangeOwnPassword(jwt, IF set THEN jwt.userId ELSE NoUser, cur, new)

\* A change with a wrong current password, a missing field or a new password
\* of fewer than 8 characters is not answered 200 and changes no user
RejectedChangeKeepsHash ==
  \A jwt \in sessions, cur \in PasswordInputs \cup {""},
     new \in {"", "short", "NewPass123!", AdminPassword} :
    (/\ IsChangeOwnPassword(jwt, cur, new)
     /\ \/ cur = "" \/ new = "" \/ Len(new) < MinPasswordLength
        \/ ~Compare(cur, users[jwt.userId].passwordHash))
      => req'.reply # PasswordChanged200 /\ users' = users

\* After a change answered 200 the login with the new password is not
\* answered 401 'Invalid credentials'
NewPasswordPassesCheck ==
  \A jwt \in sessions, cur \in PasswordInputs, e \in Emails,
     new \in {"NewPass123!", AdminPassword} :
    (/\ IsChangeOwnPassword(jwt, cur, new)
     /\ req'.reply = PasswordChanged200
     /\ users[jwt.userId].email = e)
      => /\ users'[jwt.userId].passwordHash = Hash(new)
         /\ LoginReply(e, new)' # InvalidCredentials401

====
